---- MODULE Spec2Model ----
(***************************************************************************)
(* The reminder-capable local client of tgdailybot (src/app.js, the part   *)
(* that starts at line 189): the task list, the settings, what is kept in  *)
(* localStorage, and one action per event handler or timer callback.       *)
(* JavaScript runs every callback to completion, so each handler is one    *)
(* atomic step.  Instants are epoch milliseconds.                          *)
(***************************************************************************)
EXTENDS Integers, Sequences, FiniteSets, TLC

VARIABLES
    tasks,          \* state.tasks: the task list, newest first
    settings,       \* state.settings
    storedTasks,    \* localStorage[TASKS_KEY]
    storedSettings, \* localStorage[SETTINGS_KEY]
    nextId,         \* stands for crypto.randomUUID(): the next unused id
    firedSince,     \* history: per task, the triggers fired since the task or the lead last changed
    reopened,       \* history: per task, "closed" (completed while notified), then "reopened"
    rescheduled,    \* history: per task, reminder edited to a new instant, not notified since
    hourCycle,      \* the hour cycle the engine's Intl.DateTimeFormat resolves hour12: false to
    conv,           \* one run of the date-time conversion functions on a typed text
    run,            \* the event loop: the callback on the stack and what it has done so far
    net             \* the client of the backend API: its state, the backend's, the calls in flight

vars ==
    <<tasks, settings, storedTasks, storedSettings, nextId, firedSince, reopened,
      rescheduled, hourCycle, conv, run, net>>

-----------------------------------------------------------------------------
(* Bounds of the model *)

MaxTasks == 2
MaxIds == 2

(* Program constants *)

MAX_TEXT_LENGTH == 300
MinuteMs == 60000
HourMs == 60 * MinuteMs
LeadMin == 0
LeadMax == 120
LeadFallback == 0

-----------------------------------------------------------------------------
(* JavaScript values: null, a finite number, NaN *)

Null == [t |-> "null", v |-> 0]
NaN == [t |-> "nan", v |-> 0]
Num(n) == [t |-> "num", v |-> n]

\* Number.isFinite(x)
IsFinite(x) == x.t = "num"

\* the truthiness of a number-or-null, as in `!task.reminderAt` and `reminder.value && ...`
Truthy(x) == x.t = "num" /\ x.v # 0

\* Number(x): null becomes 0, a number is itself
JsNumber(x) == IF x.t = "null" THEN Num(0) ELSE x

-----------------------------------------------------------------------------
(* Time zones *)

RU_TIMEZONES ==
    {"Europe/Kaliningrad", "Europe/Moscow", "Europe/Samara", "Asia/Yekaterinburg",
     "Asia/Omsk", "Asia/Krasnoyarsk", "Asia/Irkutsk", "Asia/Yakutsk",
     "Asia/Vladivostok", "Asia/Magadan", "Asia/Kamchatka"}

\* timezoneMap.has(value)
timezoneMapHas(value) == value \in RU_TIMEZONES

\* the UTC offset of each supplied zone, in hours, as it is at present and for every
\* later instant (the rules in force since 2014-2016 have no transitions)
ZoneHours(timeZone) ==
    CASE timeZone = "Europe/Kaliningrad" -> 2
      [] timeZone = "Europe/Moscow" -> 3
      [] timeZone = "Europe/Samara" -> 4
      [] timeZone = "Asia/Yekaterinburg" -> 5
      [] timeZone = "Asia/Omsk" -> 6
      [] timeZone = "Asia/Krasnoyarsk" -> 7
      [] timeZone = "Asia/Irkutsk" -> 8
      [] timeZone = "Asia/Yakutsk" -> 9
      [] timeZone = "Asia/Vladivostok" -> 10
      [] timeZone = "Asia/Magadan" -> 11
      [] timeZone = "Asia/Kamchatka" -> 12

\* Four synthetic zones that observe one transition each. At 1970-01-02T01:00:00Z the
\* clocks of Synthetic/Forward go from 02:00 (UTC+1) to 03:00 (UTC+2) and those of
\* Synthetic/Back from 03:00 (UTC+2) to 02:00 (UTC+1); at 1970-01-01T22:00:00Z those
\* of Synthetic/ForwardAtMidnight go from 23:00 (UTC+1) to 00:00 (UTC+2) and those of
\* Synthetic/BackAtMidnight from 00:00 (UTC+2) to 23:00 (UTC+1).
ForwardZones == {"Synthetic/Forward", "Synthetic/ForwardAtMidnight"}
BackZones == {"Synthetic/Back", "Synthetic/BackAtMidnight"}
SyntheticZones == ForwardZones \cup BackZones
Transition == 25 * HourMs
MidnightTransition == 22 * HourMs

TransitionOf(timeZone) ==
    IF timeZone \in {"Synthetic/Forward", "Synthetic/Back"} THEN Transition
    ELSE MidnightTransition

\* the offset the zone data gives for an instant
OffsetAt(timeZone, timestamp) ==
    CASE timeZone \in ForwardZones ->
             IF timestamp < TransitionOf(timeZone) THEN HourMs ELSE 2 * HourMs
      [] timeZone \in BackZones ->
             IF timestamp < TransitionOf(timeZone) THEN 2 * HourMs ELSE HourMs
      [] OTHER -> ZoneHours(timeZone) * HourMs

DayMs == 24 * HourMs

\* the proleptic Gregorian calendar of Date.UTC and Intl.DateTimeFormat: the day
\* number (days since 1970-01-01) of a date, and the date of a day number
DaysFromCivil(year, month, day) ==
    LET y == IF month <= 2 THEN year - 1 ELSE year
        era == y \div 400
        yoe == y - era * 400
        mp == IF month > 2 THEN month - 3 ELSE month + 9
        doy == (153 * mp + 2) \div 5 + day - 1
        doe == yoe * 365 + yoe \div 4 - yoe \div 100 + doy
    IN  era * 146097 + doe - 719468

CivilFromDays(dayNumber) ==
    LET z == dayNumber + 719468
        era == z \div 146097
        doe == z - era * 146097
        yoe == (doe - doe \div 1460 + doe \div 36524 - doe \div 146096) \div 365
        doy == doe - (365 * yoe + yoe \div 4 - yoe \div 100)
        mp == (5 * doy + 2) \div 153
        month == IF mp < 10 THEN mp + 3 ELSE mp - 9
    IN  [year |-> yoe + era * 400 + (IF month <= 2 THEN 1 ELSE 0),
         month |-> month,
         day |-> doy - (153 * mp + 2) \div 5 + 1]

\* the largest day number of a time value (8.64e15 ms)
MaxDayNumber == 100000000

\* Date.UTC(year, monthIndex, day, hour, minute, second): a year from 0 to 99 means
\* 1900 + year, fields out of their range carry over, and a result beyond the range
\* of time values is NaN
DateUTC(year, monthIndex, day, hour, minute, second) ==
    LET fullYear == IF year >= 0 /\ year <= 99 THEN 1900 + year ELSE year
        dayNumber == DaysFromCivil(fullYear + (monthIndex \div 12), (monthIndex % 12) + 1, 1)
                         + day - 1
    IN  IF dayNumber >= MaxDayNumber \/ dayNumber <= 0 - MaxDayNumber THEN NaN
        ELSE Num(dayNumber * DayMs + hour * HourMs + minute * MinuteMs + second * 1000)

HourCycles == {"h23", "h24"}

\* getZoneParts: the fields Intl.DateTimeFormat("en-CA", {..., hour12: false}) gives for
\* the instant in the zone. Under the hour cycle h24 the hour of midnight is 24.
getZoneParts(timestamp, timeZone) ==
    LET local == timestamp + OffsetAt(timeZone, timestamp)
        date == CivilFromDays(local \div DayMs)
        time == local % DayMs
        hour == time \div HourMs
    IN  [year |-> date.year,
         month |-> date.month,
         day |-> date.day,
         hour |-> IF hourCycle = "h24" /\ hour = 0 THEN 24 ELSE hour,
         minute |-> (time % HourMs) \div MinuteMs,
         second |-> (time % MinuteMs) \div 1000]

\* zoneOffsetMs as the code computes it: Date.UTC of the zone parts, minus `timestamp`
zoneOffsetMsByParts(timeZone, timestamp) ==
    LET p == getZoneParts(timestamp, timeZone)
        asUtc == DateUTC(p.year, p.month - 1, p.day, p.hour, p.minute, p.second)
    IN  asUtc.v - timestamp

\* zoneOffsetMs: the wall clock of `timestamp` in the zone, read as UTC, minus
\* `timestamp`. Date.UTC of the parts of an instant is its wall clock, and an hour
\* field of 24 carries over into the next day; OffsetByPartsAgrees states that this
\* is what zoneOffsetMsByParts computes.
zoneOffsetMs(timeZone, timestamp) ==
    LET local == timestamp + OffsetAt(timeZone, timestamp)
        asUtc == IF hourCycle = "h24" /\ (local % DayMs) \div HourMs = 0
                 THEN local + DayMs ELSE local
    IN  asUtc - timestamp

\* A reminder text is kept as what its decomposition yields: "empty", "bad" (not five
\* finite integers), "wall" with naive = Date.UTC(year, month - 1, day, hour, minute),
\* or "range" (five finite integers for which Date.UTC is NaN).
EmptyInput == [kind |-> "empty", naive |-> 0]
BadInput == [kind |-> "bad", naive |-> 0]
Wall(n) == [kind |-> "wall", naive |-> n]
OutOfRange == [kind |-> "range", naive |-> 0]

\* the RangeError ("Invalid time value") of formatToParts(new Date(NaN)), as a value
Thrown == [t |-> "throw", v |-> 0]

Refine(timeZone, utcGuess, result) == utcGuess - zoneOffsetMs(timeZone, result)

zonedLocalToUtcMs(datetimeValue, timeZone) ==
    IF datetimeValue.kind = "range" THEN Thrown
    ELSE IF datetimeValue.kind # "wall" THEN Null
    ELSE LET utcGuess == datetimeValue.naive
             r1 == Refine(timeZone, utcGuess, utcGuess)
             r2 == Refine(timeZone, utcGuess, r1)
             r3 == Refine(timeZone, utcGuess, r2)
         IN  Num(r3)

\* the error toasts, named by what they say
MsgBadDate == "invalid reminder date"
MsgBadFormat == "wrong time format"
MsgPast == "reminder cannot be in the past"
MsgNoText == "enter the task text"
MsgEmptyText == "task text cannot be empty"

currentReminderInputToUtc(raw, timeZone) ==
    IF raw.kind = "empty" THEN [ok |-> TRUE, value |-> Null, message |-> ""]
    ELSE LET timestamp == zonedLocalToUtcMs(raw, timeZone)
         IN  IF timestamp = Thrown
             THEN [ok |-> FALSE, value |-> Thrown, message |-> ""]
             ELSE IF ~IsFinite(timestamp)
             THEN [ok |-> FALSE, value |-> Null, message |-> MsgBadDate]
             ELSE [ok |-> TRUE, value |-> timestamp, message |-> ""]

parseReminderPromptValue(value, timeZone) ==
    IF value.kind = "empty" THEN [ok |-> TRUE, value |-> Null, message |-> ""]
    ELSE LET timestamp == zonedLocalToUtcMs(value, timeZone)
         IN  IF timestamp = Thrown
             THEN [ok |-> FALSE, value |-> Thrown, message |-> ""]
             ELSE IF ~IsFinite(timestamp)
             THEN [ok |-> FALSE, value |-> Null, message |-> MsgBadFormat]
             ELSE [ok |-> TRUE, value |-> timestamp, message |-> ""]

-----------------------------------------------------------------------------
(* Text: a string is a sequence of one-character strings *)

RECURSIVE TrimStart(_)
TrimStart(s) == IF s # <<>> /\ Head(s) = " " THEN TrimStart(Tail(s)) ELSE s

RECURSIVE TrimEnd(_)
TrimEnd(s) ==
    IF s # <<>> /\ s[Len(s)] = " " THEN TrimEnd(SubSeq(s, 1, Len(s) - 1)) ELSE s

Trim(s) == TrimEnd(TrimStart(s))

\* s.slice(0, n)
Slice(s, n) == IF Len(s) <= n THEN s ELSE SubSeq(s, 1, n)

\* s.includes(c) and the index of the first c
Includes(s, c) == \E i \in DOMAIN s : s[i] = c
FirstIndex(s, c) == CHOOSE i \in DOMAIN s : s[i] = c /\ \A j \in 1 .. i - 1 : s[j] # c

\* s.split(sep): the pieces between the separators
RECURSIVE Split(_, _)
Split(s, sep) ==
    IF ~Includes(s, sep) THEN <<s>>
    ELSE <<SubSeq(s, 1, FirstIndex(s, sep) - 1)>>
             \o Split(SubSeq(s, FirstIndex(s, sep) + 1, Len(s)), sep)

\* s.replace(" ", "T"): the first space only
ReplaceFirstSpace(s) ==
    IF ~Includes(s, " ") THEN s ELSE [s EXCEPT ![FirstIndex(s, " ")] = "T"]

Digits == <<"0", "1", "2", "3", "4", "5", "6", "7", "8", "9">>
IsDigit(c) == \E i \in DOMAIN Digits : Digits[i] = c
DigitValue(c) == (CHOOSE i \in DOMAIN Digits : Digits[i] = c) - 1

RECURSIVE LeadingDigits(_)
LeadingDigits(s) ==
    IF s # <<>> /\ IsDigit(Head(s)) THEN <<Head(s)>> \o LeadingDigits(Tail(s)) ELSE <<>>

RECURSIVE DigitsValue(_)
DigitsValue(ds) ==
    IF ds = <<>> THEN 0
    ELSE 10 * DigitsValue(SubSeq(ds, 1, Len(ds) - 1)) + DigitValue(ds[Len(ds)])

\* Number.parseInt(x, 10): white space, a sign, then the digits up to the first other
\* character; NaN without a digit
parseInt(x) ==
    LET t == TrimStart(x)
        signed == t # <<>> /\ Head(t) \in {"-", "+"}
        ds == LeadingDigits(IF signed THEN Tail(t) ELSE t)
    IN  IF ds = <<>> THEN NaN
        ELSE IF signed /\ Head(t) = "-" THEN Num(0 - DigitsValue(ds))
        ELSE Num(DigitsValue(ds))

\* an element of a destructured split(...).map(parseInt): a missing piece is undefined,
\* which is not finite
ParsedPiece(pieces, k) == IF k > Len(pieces) THEN NaN ELSE parseInt(pieces[k])

\* String(n) for a natural number, and padStart(2, "0"), padStart(4, "0")
RECURSIVE NumberString(_)
NumberString(n) ==
    IF n < 10 THEN <<Digits[n + 1]>> ELSE NumberString(n \div 10) \o <<Digits[(n % 10) + 1]>>

RECURSIVE PadStart(_, _)
PadStart(s, width) == IF Len(s) >= width THEN s ELSE PadStart(<<"0">> \o s, width)

\* zonedLocalToUtcMs up to and including Date.UTC: what the text decomposes into
Decomposed(datetimeValue) ==
    LET halves == Split(datetimeValue, "T")
        datePart == halves[1]
        timePart == IF Len(halves) >= 2 THEN halves[2] ELSE <<>>
        date == Split(datePart, "-")
        time == Split(timePart, ":")
        year == ParsedPiece(date, 1)
        month == ParsedPiece(date, 2)
        day == ParsedPiece(date, 3)
        hour == ParsedPiece(time, 1)
        minute == ParsedPiece(time, 2)
        utcGuess == DateUTC(year.v, month.v - 1, day.v, hour.v, minute.v, 0)
    IN  IF datePart = <<>> \/ timePart = <<>> THEN BadInput
        ELSE IF ~(\A n \in {year, month, day, hour, minute} : IsFinite(n)) THEN BadInput
        ELSE IF utcGuess = NaN THEN OutOfRange
        ELSE Wall(utcGuess.v)

\* what currentReminderInputToUtc passes on: the trimmed field value
ReminderFieldValue(text) ==
    IF Trim(text) = <<>> THEN EmptyInput ELSE Decomposed(Trim(text))

\* what parseReminderPromptValue passes on: trimmed, and the first space made a "T"
\* when there is no "T"
PromptAnswerValue(text) ==
    LET trimmed == Trim(text)
        normalized == IF Includes(trimmed, "T") THEN trimmed ELSE ReplaceFirstSpace(trimmed)
    IN  IF trimmed = <<>> THEN EmptyInput ELSE Decomposed(normalized)

\* formatForReminderPrompt: "YYYY-MM-DD HH:MM" from the zone parts of the instant
formatForReminderPrompt(timestamp, timeZone) ==
    LET p == getZoneParts(timestamp, timeZone)
    IN  NumberString(p.year) \o <<"-">> \o PadStart(NumberString(p.month), 2) \o <<"-">>
            \o PadStart(NumberString(p.day), 2) \o <<" ">>
            \o PadStart(NumberString(p.hour), 2) \o <<":">> \o PadStart(NumberString(p.minute), 2)

\* the value of a datetime-local field for these components: "YYYY-MM-DDTHH:MM"
LocalValue(c) ==
    PadStart(NumberString(c.year), 4) \o <<"-">> \o PadStart(NumberString(c.month), 2) \o <<"-">>
        \o PadStart(NumberString(c.day), 2) \o <<"T">>
        \o PadStart(NumberString(c.hour), 2) \o <<":">> \o PadStart(NumberString(c.minute), 2)

-----------------------------------------------------------------------------
(* Settings and storage *)

DefaultSettings ==
    [timezone |-> "Europe/Moscow", notificationsEnabled |-> FALSE, notifyBeforeMinutes |-> 0]

\* a variant that does not clamp from above
clampInt_NoUpperBound(value, min, max, fallback) ==
    IF ~IsFinite(value) THEN fallback
    ELSE IF value.v < min THEN min
    ELSE value.v

clampInt(value, min, max, fallback) ==
    IF ~IsFinite(value) THEN fallback
    ELSE IF value.v < min THEN min
    ELSE IF value.v > max THEN max
    ELSE value.v

\* What localStorage[SETTINGS_KEY] holds is kept by its kind - "missing", "malformed"
\* (JSON.parse throws), "null" (the JSON text null) or "value" - and, for a value, by
\* what loadSettings reads of it: the timezone field as a string (NoField where
\* raw?.timezone is undefined), Boolean(raw?.notificationsEnabled), and
\* String(raw?.notifyBeforeMinutes).
NoField == "(undefined)"
UndefinedText == <<"u", "n", "d", "e", "f", "i", "n", "e", "d">>

\* JSON.stringify(st), read back field by field
StoredJson(st) ==
    [timezone |-> st.timezone, notificationsEnabled |-> st.notificationsEnabled,
     notifyBeforeMinutes |-> NumberString(st.notifyBeforeMinutes)]

\* loadJson(SETTINGS_KEY, state.settings) followed by loadSettings' normalisation:
\* loadJson returns the fallback, state.settings of the fresh page, for everything
\* but a value
loadSettings(stored) ==
    LET raw == IF stored.kind = "value" THEN stored.value ELSE StoredJson(DefaultSettings)
    IN  [timezone |-> IF timezoneMapHas(raw.timezone) THEN raw.timezone ELSE "Europe/Moscow",
         notificationsEnabled |-> raw.notificationsEnabled,
         notifyBeforeMinutes |->
             clampInt(parseInt(raw.notifyBeforeMinutes), LeadMin, LeadMax, LeadFallback)]

NormNumber(x) == IF IsFinite(JsNumber(x)) THEN JsNumber(x) ELSE Null

\* the text field of a stored record that is missing or is not a string
\* (`typeof raw?.text === "string"` is false): no string of characters equals it
NotAString == <<"(not a string)">>

\* a variant that keeps the records without text and does not truncate
normalizeTask_KeepsAnyText(raw) ==
    << [id |-> raw.id,
        text |-> IF raw.text = NotAString THEN <<>> ELSE Trim(raw.text),
        done |-> raw.done,
        reminderAt |-> NormNumber(raw.reminderAt),
        notifiedFor |-> NormNumber(raw.notifiedFor)] >>

\* a variant that reads notifiedFor from the reminderAt field
normalizeTask_NotifiedFromReminder(raw) ==
    LET text == IF raw.text = NotAString THEN <<>>
                ELSE Slice(Trim(raw.text), MAX_TEXT_LENGTH)
    IN  IF text = <<>> THEN <<>>
        ELSE << [id |-> raw.id,
                 text |-> text,
                 done |-> raw.done,
                 reminderAt |-> NormNumber(raw.reminderAt),
                 notifiedFor |-> NormNumber(raw.reminderAt)] >>

\* normalizeTask: <<>> stands for the null it returns for a record without text
normalizeTask(raw) ==
    LET text == IF raw.text = NotAString THEN <<>>
                ELSE Slice(Trim(raw.text), MAX_TEXT_LENGTH)
    IN  IF text = <<>> THEN <<>>
        ELSE << [id |-> raw.id,
                 text |-> text,
                 done |-> raw.done,
                 reminderAt |-> NormNumber(raw.reminderAt),
                 notifiedFor |-> NormNumber(raw.notifiedFor)] >>

RECURSIVE NormalizeAll(_)
NormalizeAll(rawTasks) ==
    IF rawTasks = <<>> THEN <<>>
    ELSE normalizeTask(Head(rawTasks)) \o NormalizeAll(Tail(rawTasks))

\* loadTasks: loadJson(TASKS_KEY, []) and rawTasks.map(normalizeTask).filter(Boolean)
loadTasks(stored) == IF stored.present THEN NormalizeAll(stored.items) ELSE <<>>

\* loadJson(TASKS_KEY, []): the stored array, or the fallback when the key is absent
loadJsonTasks(stored) == IF stored.present THEN stored.items ELSE <<>>

\* saveTasks: JSON.stringify keeps null, booleans, strings and finite numbers as they are
saveTasks(ts) == [present |-> TRUE, items |-> ts]

saveSettings(st) == [kind |-> "value", value |-> StoredJson(st)]

-----------------------------------------------------------------------------
(* checkReminders *)

\* a variant that adds the lead instead of subtracting it
triggerAtOf_AddsLead(task, leadMs) == task.reminderAt.v + leadMs

triggerAtOf(task, leadMs) == task.reminderAt.v - leadMs

\* variants of the loop body's decision: de-duplicating on reminderAt instead of the
\* trigger, an exclusive comparison with the trigger, and no test of task.done
Fires_DedupOnReminderAt(task, nowMs, leadMs) ==
    /\ ~(task.done \/ ~Truthy(task.reminderAt))
    /\ ~(nowMs < triggerAtOf(task, leadMs))
    /\ ~(task.notifiedFor = task.reminderAt)

Fires_Exclusive(task, nowMs, leadMs) ==
    /\ ~(task.done \/ ~Truthy(task.reminderAt))
    /\ ~(nowMs <= triggerAtOf(task, leadMs))
    /\ ~(task.notifiedFor = Num(triggerAtOf(task, leadMs)))

Fires_IgnoresDone(task, nowMs, leadMs) ==
    /\ Truthy(task.reminderAt)
    /\ ~(nowMs < triggerAtOf(task, leadMs))
    /\ ~(task.notifiedFor = Num(triggerAtOf(task, leadMs)))

\* the loop body's decision for one task: none of the three `continue`s is taken
Fires(task, nowMs, leadMs) ==
    /\ ~(task.done \/ ~Truthy(task.reminderAt))
    /\ ~(nowMs < triggerAtOf(task, leadMs))
    /\ ~(task.notifiedFor = Num(triggerAtOf(task, leadMs)))

RECURSIVE EmitAll(_, _, _)
EmitAll(ts, nowMs, leadMs) ==
    IF ts = <<>> THEN <<>>
    ELSE (IF Fires(Head(ts), nowMs, leadMs)
          THEN << [id |-> Head(ts).id, triggerAt |-> triggerAtOf(Head(ts), leadMs)] >>
          ELSE <<>>) \o EmitAll(Tail(ts), nowMs, leadMs)

\* a variant that fires without recording the trigger in notifiedFor
checkReminders_NoWrite(ts, st, nowMs) ==
    IF ~st.notificationsEnabled
    THEN [tasks |-> ts, emitted |-> <<>>, changed |-> FALSE]
    ELSE LET calls == EmitAll(ts, nowMs, st.notifyBeforeMinutes * MinuteMs)
         IN  [tasks |-> ts, emitted |-> calls, changed |-> calls # <<>>]

\* checkReminders as a function of the state it reads: the task list it leaves, the
\* emitReminder calls it makes and whether it saved and rendered
checkReminders(ts, st, nowMs) ==
    IF ~st.notificationsEnabled
    THEN [tasks |-> ts, emitted |-> <<>>, changed |-> FALSE]
    ELSE LET leadMs == st.notifyBeforeMinutes * MinuteMs
             after == [i \in DOMAIN ts |->
                          IF Fires(ts[i], nowMs, leadMs)
                          THEN [ts[i] EXCEPT !.notifiedFor = Num(triggerAtOf(ts[i], leadMs))]
                          ELSE ts[i]]
             calls == EmitAll(ts, nowMs, leadMs)
         IN  [tasks |-> after, emitted |-> calls, changed |-> calls # <<>>]

-----------------------------------------------------------------------------
(* The handlers, each as a function of the state it reads and of its inputs *)

IndexOf(ts, taskId) == CHOOSE i \in DOMAIN ts : ts[i].id = taskId

HasTask(ts, taskId) == \E i \in DOMAIN ts : ts[i].id = taskId

\* a handler that returns after an error toast
Rejected(ts, message) == [tasks |-> ts, outcome |-> "rejected", toast |-> message]

\* a handler that saved and rendered
Accepted(ts) == [tasks |-> ts, outcome |-> "ok", toast |-> ""]

\* a handler that returned silently
Returned(ts) == [tasks |-> ts, outcome |-> "noop", toast |-> ""]

\* a handler ended by an exception nothing catches: what it had not yet done is not done
Threw(ts) == [tasks |-> ts, outcome |-> "threw", toast |-> ""]

\* the past check of addTask and editTask: `value && value < Date.now()`
IsPast(value, clock) == Truthy(value) /\ value.v < clock

NewTask(id, text, reminderAt) ==
    [id |-> id, text |-> Slice(text, MAX_TEXT_LENGTH), done |-> FALSE,
     reminderAt |-> reminderAt, notifiedFor |-> Null]

\* addTask: textRaw and reminderRaw are the two input fields, id the fresh UUID
addTask(ts, st, id, textRaw, reminderRaw, clock) ==
    LET text == Trim(textRaw)
        reminder == currentReminderInputToUtc(reminderRaw, st.timezone)
    IN  IF text = <<>> THEN Rejected(ts, MsgNoText)
        ELSE IF reminder.value = Thrown THEN Threw(ts)
        ELSE IF ~reminder.ok THEN Rejected(ts, reminder.message)
        ELSE IF IsPast(reminder.value, clock) THEN Rejected(ts, MsgPast)
        ELSE Accepted(<<NewTask(id, text, reminder.value)>> \o ts)

\* a variant that leaves notifiedFor alone when the task is completed
toggleTask_KeepsNotifiedFor(ts, taskId, done) ==
    IF ~HasTask(ts, taskId) THEN Returned(ts)
    ELSE Accepted([ts EXCEPT ![IndexOf(ts, taskId)] = [@ EXCEPT !.done = done]])

toggleTask(ts, taskId, done) ==
    IF ~HasTask(ts, taskId) THEN Returned(ts)
    ELSE Accepted([ts EXCEPT ![IndexOf(ts, taskId)] =
                      [@ EXCEPT !.done = done,
                                !.notifiedFor = IF done THEN Null ELSE @]])

deleteTask(ts, taskId) ==
    LET keep(item) == item.id # taskId
    IN  Accepted(SelectSeq(ts, keep))

clearDone(ts) ==
    LET keep(task) == ~task.done
    IN  Accepted(SelectSeq(ts, keep))

\* the answers to a prompt: Cancel is the null prompt() returns
Cancel == [cancel |-> TRUE, text |-> <<>>, reminder |-> EmptyInput]
TextAnswer(s) == [cancel |-> FALSE, text |-> s, reminder |-> EmptyInput]
ReminderAnswer(r) == [cancel |-> FALSE, text |-> <<>>, reminder |-> r]

\* a variant that assigns the text before it validates the reminder answer
editTask_TextFirst(ts, st, taskId, nextText, rawReminder, clock) ==
    IF ~HasTask(ts, taskId) THEN Returned(ts)
    ELSE LET i == IndexOf(ts, taskId)
             task == ts[i]
             trimmedText == Trim(nextText.text)
             renamed == [ts EXCEPT ![i] =
                            [@ EXCEPT !.text = Slice(trimmedText, MAX_TEXT_LENGTH)]]
             result == parseReminderPromptValue(rawReminder.reminder, st.timezone)
             nextReminder == IF rawReminder.cancel THEN task.reminderAt ELSE result.value
         IN  IF nextText.cancel THEN Returned(ts)
             ELSE IF trimmedText = <<>> THEN Rejected(ts, MsgEmptyText)
             ELSE IF ~rawReminder.cancel /\ result.value = Thrown THEN Threw(renamed)
             ELSE IF ~rawReminder.cancel /\ ~result.ok
             THEN Rejected(renamed, result.message)
             ELSE IF ~rawReminder.cancel /\ IsPast(result.value, clock)
             THEN Rejected(renamed, MsgPast)
             ELSE Accepted([ts EXCEPT ![i] =
                               [@ EXCEPT !.text = Slice(trimmedText, MAX_TEXT_LENGTH),
                                         !.reminderAt = nextReminder,
                                         !.notifiedFor = Null]])

\* a variant that leaves notifiedFor alone
editTask_KeepsNotifiedFor(ts, st, taskId, nextText, rawReminder, clock) ==
    IF ~HasTask(ts, taskId) THEN Returned(ts)
    ELSE LET i == IndexOf(ts, taskId)
             task == ts[i]
             trimmedText == Trim(nextText.text)
             result == parseReminderPromptValue(rawReminder.reminder, st.timezone)
             nextReminder == IF rawReminder.cancel THEN task.reminderAt ELSE result.value
         IN  IF nextText.cancel THEN Returned(ts)
             ELSE IF trimmedText = <<>> THEN Rejected(ts, MsgEmptyText)
             ELSE IF ~rawReminder.cancel /\ result.value = Thrown THEN Threw(ts)
             ELSE IF ~rawReminder.cancel /\ ~result.ok THEN Rejected(ts, result.message)
             ELSE IF ~rawReminder.cancel /\ IsPast(result.value, clock)
             THEN Rejected(ts, MsgPast)
             ELSE Accepted([ts EXCEPT ![i] =
                               [@ EXCEPT !.text = Slice(trimmedText, MAX_TEXT_LENGTH),
                                         !.reminderAt = nextReminder]])

\* a variant that reads an empty reminder answer as "leave the reminder as it is"
editTask_EmptyKeepsReminder(ts, st, taskId, nextText, rawReminder, clock) ==
    IF ~HasTask(ts, taskId) THEN Returned(ts)
    ELSE LET i == IndexOf(ts, taskId)
             task == ts[i]
             trimmedText == Trim(nextText.text)
             result == parseReminderPromptValue(rawReminder.reminder, st.timezone)
             nextReminder == IF rawReminder.cancel \/ rawReminder.reminder.kind = "empty"
                             THEN task.reminderAt ELSE result.value
         IN  IF nextText.cancel THEN Returned(ts)
             ELSE IF trimmedText = <<>> THEN Rejected(ts, MsgEmptyText)
             ELSE IF ~rawReminder.cancel /\ result.value = Thrown THEN Threw(ts)
             ELSE IF ~rawReminder.cancel /\ ~result.ok THEN Rejected(ts, result.message)
             ELSE IF ~rawReminder.cancel /\ IsPast(result.value, clock)
             THEN Rejected(ts, MsgPast)
             ELSE Accepted([ts EXCEPT ![i] =
                               [@ EXCEPT !.text = Slice(trimmedText, MAX_TEXT_LENGTH),
                                         !.reminderAt = nextReminder,
                                         !.notifiedFor = Null]])

\* editTask: nextText and rawReminder are the answers to its two prompts
editTask(ts, st, taskId, nextText, rawReminder, clock) ==
    IF ~HasTask(ts, taskId) THEN Returned(ts)
    ELSE LET i == IndexOf(ts, taskId)
             task == ts[i]
             trimmedText == Trim(nextText.text)
             result == parseReminderPromptValue(rawReminder.reminder, st.timezone)
             nextReminder == IF rawReminder.cancel THEN task.reminderAt ELSE result.value
         IN  IF nextText.cancel THEN Returned(ts)
             ELSE IF trimmedText = <<>> THEN Rejected(ts, MsgEmptyText)
             ELSE IF ~rawReminder.cancel /\ result.value = Thrown THEN Threw(ts)
             ELSE IF ~rawReminder.cancel /\ ~result.ok THEN Rejected(ts, result.message)
             ELSE IF ~rawReminder.cancel /\ IsPast(result.value, clock)
             THEN Rejected(ts, MsgPast)
             ELSE Accepted([ts EXCEPT ![i] =
                               [@ EXCEPT !.text = Slice(trimmedText, MAX_TEXT_LENGTH),
                                         !.reminderAt = nextReminder,
                                         !.notifiedFor = Null]])

\* a variant that keeps each reminder's wall clock: it moves reminderAt by the
\* difference of the two zones' offsets
timezoneChange_KeepsWallClock(ts, st, value) ==
    IF ~timezoneMapHas(value) THEN [tasks |-> ts, settings |-> st, saved |-> FALSE]
    ELSE [tasks |-> [i \in DOMAIN ts |->
                        IF Truthy(ts[i].reminderAt)
                        THEN [ts[i] EXCEPT !.reminderAt =
                                 Num(@.v + (ZoneHours(st.timezone) - ZoneHours(value)) * HourMs)]
                        ELSE ts[i]],
          settings |-> [st EXCEPT !.timezone = value], saved |-> TRUE]

\* a variant without the membership test
timezoneChange_Unchecked(ts, st, value) ==
    [tasks |-> ts, settings |-> [st EXCEPT !.timezone = value], saved |-> TRUE]

\* the timezone select's change handler
timezoneChange(ts, st, value) ==
    IF ~timezoneMapHas(value) THEN [tasks |-> ts, settings |-> st, saved |-> FALSE]
    ELSE [tasks |-> ts, settings |-> [st EXCEPT !.timezone = value], saved |-> TRUE]

\* the notifications checkbox's change handler
notificationsEnabledChange(st, checked) ==
    [settings |-> [st EXCEPT !.notificationsEnabled = checked], saved |-> TRUE]

\* the lead-time field's change handler: the new settings and the pass it runs
notifyBeforeChange(ts, st, value, clock) ==
    LET next == [st EXCEPT !.notifyBeforeMinutes =
                     clampInt(value, LeadMin, LeadMax, LeadFallback)]
    IN  [settings |-> next, pass |-> checkReminders(ts, next, clock)]

\* init: the settings and tasks it loads and the pass it runs on them
init(storedT, storedS, clock) ==
    LET loaded == loadSettings(storedS)
    IN  [settings |-> loaded, pass |-> checkReminders(loadTasks(storedT), loaded, clock)]

-----------------------------------------------------------------------------
(* What the user and the clock can supply *)

\* 1970-01-01T08:20:00Z, standing for the present: every clock reading is later than
\* the epoch by more than LeadMax minutes
Base == 500 * MinuteMs

\* what Date.now() can return: one second before Base - 10 min, Base - 10 min, Base
\* and Base + 5 min, in any order (the clock may be set back between two callbacks)
ClockValues ==
    {Base - 10 * MinuteMs - 1000, Base - 10 * MinuteMs, Base, Base + 5 * MinuteMs}

\* what is typed into the task field and the text prompt
TextInputs == {<<" ">>, <<" ", "a">>}

\* what is typed into the reminder field and the reminder prompt: nothing, something
\* malformed, a date beyond the range of time values (275760-12-31T23:59),
\* 1970-01-01T03:00, and the wall-clock times Base + 3 h and Base + 3 h 5 min
\* (Base and Base + 5 min in Europe/Moscow, an hour earlier in Europe/Samara)
ReminderInputs ==
    {EmptyInput, BadInput, OutOfRange, Wall(3 * HourMs), Wall(Base + 3 * HourMs),
     Wall(Base + 3 * HourMs + 5 * MinuteMs)}

TextAnswers == {Cancel} \cup {TextAnswer(s) : s \in TextInputs}

ReminderAnswers == {Cancel} \cup {ReminderAnswer(r) : r \in ReminderInputs}

\* the values the timezone select can deliver
ZoneInputs == {"Europe/Moscow", "Europe/Samara", "Mars/Phobos"}

\* parseInt of what is typed into the lead-time field
LeadInputs == {Num(10), Num(0 - 5), NaN}

Ids == 1 .. MaxIds

-----------------------------------------------------------------------------
(* The history variables *)

IdsOf(ts) == {ts[i].id : i \in DOMAIN ts}

EmittedIds(calls) == {calls[k].id : k \in DOMAIN calls}

\* every emitReminder call of a pass is recorded
FiredAfter(fs, calls) ==
    [id \in Ids |->
        fs[id] \cup {calls[k].triggerAt : k \in {j \in DOMAIN calls : calls[j].id = id}}]

ClearedAfter(flags, calls) == [id \in Ids |-> flags[id] /\ id \notin EmittedIds(calls)]

PhaseAfter(phase, calls) ==
    [id \in Ids |-> IF id \in EmittedIds(calls) THEN "no" ELSE phase[id]]

\* whether the task is notified for the trigger the current lead gives it
NotifiedNow(task, st) ==
    /\ Truthy(task.reminderAt)
    /\ task.notifiedFor = Num(task.reminderAt.v - st.notifyBeforeMinutes * MinuteMs)

\* nothing is kept about tasks that are gone
OnlyFor(f, ts, empty) == [id \in Ids |-> IF id \in IdsOf(ts) THEN f[id] ELSE empty]

-----------------------------------------------------------------------------
(* The initial state: init() in a browser with nothing stored *)

\* no conversion is being followed
Idle == [pc |-> "idle"]

\* BACKEND_MODE is false: app.js makes no request
Offline == [mode |-> "local"]

\* the toast element (#toast) as the page loads it: hidden, no text
NoToast == [kind |-> "hidden", id |-> 0]

\* the event loop with nothing on the stack and nothing done: pc is the position of
\* the callback that is running, source the caller of the pass, on the list the pass
\* began with, i the next task of its loop, now and changed its two locals, log what
\* the last callback did, toast the toast element, painted whether the page was
\* painted since, permission what Notification.permission reads ("unavailable"
\* where window has no Notification), awaiting whether a request for permission is
\* pending, overlapped whether a callback ever began while a pass was on the stack
Quiet ==
    [pc |-> "idle", source |-> "none", on |-> <<>>, i |-> 0, now |-> 0,
     changed |-> FALSE, log |-> <<>>, toast |-> NoToast, painted |-> TRUE,
     permission |-> "default", awaiting |-> FALSE, overlapped |-> FALSE]

\* the page as init() leaves it, on an engine of either hour cycle
Started ==
    /\ tasks = <<>>
    /\ settings = DefaultSettings
    /\ storedTasks = [present |-> FALSE, items |-> <<>>]
    /\ storedSettings = [kind |-> "missing", value |-> StoredJson(DefaultSettings)]
    /\ nextId = 1
    /\ firedSince = [id \in Ids |-> {}]
    /\ reopened = [id \in Ids |-> "no"]
    /\ rescheduled = [id \in Ids |-> FALSE]
    /\ hourCycle \in HourCycles

Init ==
    /\ Started
    /\ conv = Idle
    /\ run = Quiet
    /\ net = Offline

-----------------------------------------------------------------------------
(* The actions: one per event handler or timer callback *)

\* Date.now() is read by `value && value < Date.now()` only for a truthy value, and by
\* checkReminders only with notifications on: where it is not read, one reading
\* stands for all
AnyClock == CHOOSE c \in ClockValues : TRUE
ClockIfRead(read) == IF read THEN ClockValues ELSE {AnyClock}

\* what localStorage holds after a task handler: saveTasks() is called on the path
\* that changes the list, after the change, and on no path that returns early
StoredAfter(result) ==
    IF result.outcome = "ok" THEN saveTasks(result.tasks) ELSE storedTasks

\* a task handler's result
TasksBecome(result) ==
    /\ tasks' = result.tasks
    /\ storedTasks' = StoredAfter(result)

AddTask(textRaw, reminderRaw, clock) ==
    /\ nextId <= MaxIds
    /\ Len(tasks) < MaxTasks
    /\ LET result == addTask(tasks, settings, nextId, textRaw, reminderRaw, clock)
       IN  /\ TasksBecome(result)
           /\ nextId' = IF result.outcome = "ok" THEN nextId + 1 ELSE nextId
    /\ UNCHANGED <<settings, storedSettings, firedSince, reopened, rescheduled, hourCycle, conv, run, net>>

ToggleTask(taskId, done) ==
    /\ TasksBecome(toggleTask(tasks, taskId, done))
    /\ firedSince' = [firedSince EXCEPT ![taskId] = {}]
    /\ reopened' = [reopened EXCEPT ![taskId] =
                        IF done
                        THEN (IF NotifiedNow(tasks[IndexOf(tasks, taskId)], settings)
                              THEN "closed" ELSE "no")
                        ELSE (IF @ = "closed" THEN "reopened" ELSE "no")]
    /\ UNCHANGED <<settings, storedSettings, nextId, rescheduled, hourCycle, conv, run, net>>

Removal(result) ==
    /\ TasksBecome(result)
    /\ firedSince' = OnlyFor(firedSince, result.tasks, {})
    /\ reopened' = OnlyFor(reopened, result.tasks, "no")
    /\ rescheduled' = OnlyFor(rescheduled, result.tasks, FALSE)
    /\ UNCHANGED <<settings, storedSettings, nextId, hourCycle, conv, run, net>>

DeleteTask(taskId) == Removal(deleteTask(tasks, taskId))

ClearDone == Removal(clearDone(tasks))

EditTask(taskId, nextText, rawReminder, clock) ==
    LET result == editTask(tasks, settings, taskId, nextText, rawReminder, clock)
        before == tasks[IndexOf(tasks, taskId)].reminderAt
        after == result.tasks[IndexOf(tasks, taskId)].reminderAt
    IN  /\ TasksBecome(result)
        /\ IF result.outcome = "ok"
           THEN /\ firedSince' = [firedSince EXCEPT ![taskId] = {}]
                /\ rescheduled' = [rescheduled EXCEPT ![taskId] =
                                      IF after = before THEN @ ELSE IsFinite(after)]
                /\ reopened' = [reopened EXCEPT ![taskId] =
                                   IF after = before THEN @ ELSE "no"]
           ELSE UNCHANGED <<firedSince, rescheduled, reopened>>
        /\ UNCHANGED <<settings, storedSettings, nextId, hourCycle, conv, run, net>>

SettingsBecome(result) ==
    /\ settings' = result.settings
    /\ storedSettings' = IF result.saved THEN saveSettings(result.settings)
                         ELSE storedSettings

TimezoneChange(value) ==
    LET result == timezoneChange(tasks, settings, value)
    IN  /\ SettingsBecome(result)
        /\ tasks' = result.tasks
        /\ UNCHANGED <<storedTasks, nextId, firedSince, reopened, rescheduled, hourCycle,
                       conv, run, net>>

NotificationsEnabledChange(checked) ==
    /\ SettingsBecome(notificationsEnabledChange(settings, checked))
    /\ UNCHANGED <<tasks, storedTasks, nextId, firedSince, reopened, rescheduled, hourCycle, conv, run, net>>

\* what a checkReminders call leaves behind; `since` is the history it adds to
PassDone(pass, since) ==
    /\ tasks' = pass.tasks
    /\ storedTasks' = IF pass.changed THEN saveTasks(pass.tasks) ELSE storedTasks
    /\ firedSince' = FiredAfter(since, pass.emitted)
    /\ reopened' = PhaseAfter(reopened, pass.emitted)
    /\ rescheduled' = ClearedAfter(rescheduled, pass.emitted)

NotifyBeforeChange(value, clock) ==
    LET result == notifyBeforeChange(tasks, settings, value, clock)
    IN  /\ settings' = result.settings
        /\ storedSettings' = saveSettings(result.settings)
        /\ PassDone(result.pass,
                    IF result.settings.notifyBeforeMinutes = settings.notifyBeforeMinutes
                    THEN firedSince ELSE [id \in Ids |-> {}])
        /\ UNCHANGED <<nextId, hourCycle, conv, run, net>>

\* setInterval(checkReminders, 15_000)
CheckRemindersTick(clock) ==
    /\ PassDone(checkReminders(tasks, settings, clock), firedSince)
    /\ UNCHANGED <<settings, storedSettings, nextId, hourCycle, conv, run, net>>

\* a variant that normalises and saves the settings on every tick
updateClock_SavesSettings(ts, st, storedT, storedS) ==
    [tasks |-> ts, settings |-> st, storedTasks |-> storedT,
     storedSettings |-> saveSettings(st)]

\* updateClock: what it leaves of the program's state; it reads state.settings.timezone
\* and assigns the text of the two clock elements
updateClock(ts, st, storedT, storedS) ==
    [tasks |-> ts, settings |-> st, storedTasks |-> storedT, storedSettings |-> storedS]

\* what a display tick leaves
ClockDone(result) ==
    /\ tasks' = result.tasks
    /\ settings' = result.settings
    /\ storedTasks' = result.storedTasks
    /\ storedSettings' = result.storedSettings

\* setInterval(updateClock, 1000)
UpdateClock ==
    /\ ClockDone(updateClock(tasks, settings, storedTasks, storedSettings))
    /\ UNCHANGED <<nextId, firedSince, reopened, rescheduled, hourCycle, conv, run, net>>

\* the page is closed and opened again: init() on fresh module state
Reload(clock) ==
    LET result == init(storedTasks, storedSettings, clock)
    IN  /\ settings' = result.settings
        /\ PassDone(result.pass, firedSince)
        /\ UNCHANGED <<storedSettings, nextId, hourCycle, conv, run, net>>

Next ==
    \/ \E textRaw \in TextInputs :
           \E reminderRaw \in (IF Trim(textRaw) = <<>> THEN {EmptyInput} ELSE ReminderInputs) :
               \E clock \in ClockIfRead(Truthy(zonedLocalToUtcMs(reminderRaw,
                                                                 settings.timezone))) :
                   AddTask(textRaw, reminderRaw, clock)
    \/ \E i \in DOMAIN tasks : ToggleTask(tasks[i].id, ~tasks[i].done)
    \/ \E i \in DOMAIN tasks : DeleteTask(tasks[i].id)
    \/ ClearDone
    \/ \E i \in DOMAIN tasks, nextText \in TextAnswers :
           \E rawReminder \in (IF Trim(nextText.text) = <<>> THEN {Cancel} ELSE ReminderAnswers) :
               \E clock \in ClockIfRead(Truthy(zonedLocalToUtcMs(rawReminder.reminder,
                                                                 settings.timezone))) :
                   EditTask(tasks[i].id, nextText, rawReminder, clock)
    \/ \E value \in ZoneInputs : TimezoneChange(value)
    \/ NotificationsEnabledChange(~settings.notificationsEnabled)
    \/ \E value \in LeadInputs, clock \in ClockIfRead(settings.notificationsEnabled) :
           NotifyBeforeChange(value, clock)
    \/ \E clock \in ClockIfRead(settings.notificationsEnabled) : CheckRemindersTick(clock)
    \/ UpdateClock
    \/ \E clock \in ClockIfRead(loadSettings(storedSettings).notificationsEnabled) :
           Reload(clock)

Spec == Init /\ [][Next]_vars

-----------------------------------------------------------------------------
(* The conversions, followed one text at a time: a wall-clock text is converted to  *)
(* an instant, the instant is read back in the zone, formatted for the edit prompt, *)
(* parsed again, and the prefilled prompt is accepted in editTask.                  *)

\* the wall-clock components typed: the days around the epoch and around the
\* synthetic zones' transition, every hour, two minutes of the hour, and a year
\* below 100
ConvDates ==
    {[year |-> 1969, month |-> 12, day |-> 31], [year |-> 1970, month |-> 1, day |-> 1],
     [year |-> 1970, month |-> 1, day |-> 2], [year |-> 1970, month |-> 1, day |-> 3],
     [year |-> 70, month |-> 1, day |-> 2]}
ConvHours == 0 .. 23
ConvMinutes == {0, 30}
ConvComponents ==
    {[year |-> d.year, month |-> d.month, day |-> d.day, hour |-> h, minute |-> m] :
        d \in ConvDates, h \in ConvHours, m \in ConvMinutes}

\* no components: the text was not built from any
NoComponents == [year |-> 0, month |-> 0, day |-> 0, hour |-> 0, minute |-> 0]

\* other texts: nothing, words, a date alone, a date and "T", a missing minute, a
\* month that is no number, the prompt's form with a space, seconds and a zone
\* suffix after the minute, the day 0 of a month, and the last minute of the
\* year 275760
OtherTexts ==
    {<<>>,
     <<"s", "o", "o", "n">>,
     <<"1", "9", "7", "0", "-", "0", "1", "-", "0", "2">>,
     <<"1", "9", "7", "0", "-", "0", "1", "-", "0", "2", "T">>,
     <<"1", "9", "7", "0", "-", "0", "1", "-", "0", "2", "T", "0", "9">>,
     <<"1", "9", "7", "0", "-", "x", "x", "-", "0", "2", "T", "0", "9", ":", "3", "0">>,
     <<"1", "9", "7", "0", "-", "0", "1", "-", "0", "2", " ", "0", "9", ":", "3", "0">>,
     <<"1", "9", "7", "0", "-", "0", "1", "-", "0", "2", "T", "0", "9", ":", "3", "0",
       ":", "4", "5", "Z">>,
     <<"1", "9", "7", "0", "-", "0", "1", "-", "0", "0", "T", "0", "9", ":", "3", "0">>,
     <<"2", "7", "5", "7", "6", "0", "-", "1", "2", "-", "3", "1", "T", "2", "3", ":",
       "5", "9">>}

\* two zones of the select, the easternmost among them, and the synthetic zones
ConvZones == {"Europe/Moscow", "Asia/Kamchatka"} \cup SyntheticZones

NoParts == [year |-> 0, month |-> 0, day |-> 0, hour |-> 0, minute |-> 0, second |-> 0]
NoResult == [tasks |-> <<>>, outcome |-> "none", toast |-> ""]

Typed(text, timeZone, components) ==
    [pc |-> "typed", text |-> text, zone |-> timeZone, components |-> components,
     utc |-> Null, parts |-> NoParts, formatted |-> <<>>, prefill |-> <<>>,
     again |-> [ok |-> FALSE, value |-> Null, message |-> ""], edited |-> NoResult]

ConvInit ==
    /\ Started
    /\ run = Quiet
    /\ net = Offline
    /\ \E timeZone \in ConvZones :
           \/ \E c \in ConvComponents : conv = Typed(LocalValue(c), timeZone, c)
           \/ \E text \in OtherTexts : conv = Typed(text, timeZone, NoComponents)

\* the conversions are followed on their own: the page stays as it is
PageUnchanged ==
    UNCHANGED <<tasks, settings, storedTasks, storedSettings, nextId, firedSince,
                reopened, rescheduled, hourCycle, run, net>>

\* zonedLocalToUtcMs(conv.text, conv.zone)
Convert ==
    /\ conv.pc = "typed"
    /\ conv' = [conv EXCEPT !.pc = "converted",
                            !.utc = zonedLocalToUtcMs(Decomposed(conv.text), conv.zone)]
    /\ PageUnchanged

\* getZoneParts(conv.utc, conv.zone)
ReadBack ==
    /\ conv.pc = "converted"
    /\ IsFinite(conv.utc)
    /\ conv' = [conv EXCEPT !.pc = "read",
                            !.parts = getZoneParts(conv.utc.v, conv.zone)]
    /\ PageUnchanged

\* formatForReminderPrompt(conv.utc), and editTask's prefill for a task whose
\* reminderAt is conv.utc
Format ==
    /\ conv.pc = "read"
    /\ conv' = [conv EXCEPT !.pc = "formatted",
                            !.formatted = formatForReminderPrompt(conv.utc.v, conv.zone),
                            !.prefill = IF Truthy(conv.utc)
                                        THEN formatForReminderPrompt(conv.utc.v, conv.zone)
                                        ELSE <<>>]
    /\ PageUnchanged

\* parseReminderPromptValue(conv.formatted)
Reparse ==
    /\ conv.pc = "formatted"
    /\ conv' = [conv EXCEPT !.pc = "reparsed",
                            !.again = parseReminderPromptValue(
                                          PromptAnswerValue(conv.formatted), conv.zone)]
    /\ PageUnchanged

\* the task an edit is followed on: its reminderAt is the converted instant
ConvTask == NewTask(1, <<"a">>, conv.utc)

\* editTask on ConvTask, both prompts accepted as prefilled
AcceptPrefill(clock) ==
    /\ conv.pc = "reparsed"
    /\ conv' = [conv EXCEPT !.pc = "edited",
                            !.edited = editTask(<<ConvTask>>,
                                                [DefaultSettings EXCEPT !.timezone = conv.zone],
                                                1, TextAnswer(ConvTask.text),
                                                ReminderAnswer(PromptAnswerValue(conv.prefill)),
                                                clock)]
    /\ PageUnchanged

ConvNext ==
    \/ Convert
    \/ ReadBack
    \/ Format
    \/ Reparse
    \/ \E clock \in ClockValues : AcceptPrefill(clock)

ConvSpec == ConvInit /\ [][ConvNext]_vars

\* zoneOffsetMs is what the code's computation through the zone parts yields, at
\* the instants the conversions meet
OffsetByPartsAgrees ==
    /\ Decomposed(conv.text).kind = "wall" =>
           zoneOffsetMsByParts(conv.zone, Decomposed(conv.text).naive)
               = zoneOffsetMs(conv.zone, Decomposed(conv.text).naive)
    /\ IsFinite(conv.utc) =>
           zoneOffsetMsByParts(conv.zone, conv.utc.v) = zoneOffsetMs(conv.zone, conv.utc.v)

-----------------------------------------------------------------------------
(* The backend-capable client's reminder parsers (they hold the past check themselves) *)

parseReminderFromInput(raw, timeZone, clock) ==
    IF raw.kind = "empty" THEN [ok |-> TRUE, value |-> Null, message |-> ""]
    ELSE LET ms == zonedLocalToUtcMs(raw, timeZone)
         IN  IF ms = Thrown THEN [ok |-> FALSE, value |-> Thrown, message |-> ""]
             ELSE IF ~IsFinite(ms) THEN [ok |-> FALSE, value |-> Null, message |-> MsgBadDate]
             ELSE IF ms.v < clock THEN [ok |-> FALSE, value |-> Null, message |-> MsgPast]
             ELSE [ok |-> TRUE, value |-> ms, message |-> ""]

parsePromptReminder(text, timeZone, clock) ==
    IF text.kind = "empty" THEN [ok |-> TRUE, value |-> Null, message |-> ""]
    ELSE LET ms == zonedLocalToUtcMs(text, timeZone)
         IN  IF ms = Thrown THEN [ok |-> FALSE, value |-> Thrown, message |-> ""]
             ELSE IF ~IsFinite(ms) THEN [ok |-> FALSE, value |-> Null, message |-> MsgBadFormat]
             ELSE IF ms.v < clock THEN [ok |-> FALSE, value |-> Null, message |-> MsgPast]
             ELSE [ok |-> TRUE, value |-> ms, message |-> ""]

-----------------------------------------------------------------------------
(* Every callback that can run in the current state, as a record of what it read and *)
(* what it left: the properties below are stated about these records.              *)

\* pre: state.tasks before the callback; on: the list a pass evaluated; post: state.tasks
\* after it; st0, st1: the settings before and after; parsed: the reminder instant typed;
\* stored: localStorage[TASKS_KEY] after it
TaskStep(name, taskId, clock, value, result) ==
    [op |-> name, id |-> taskId, pre |-> tasks, on |-> tasks, post |-> result.tasks,
     st0 |-> settings, st1 |-> settings, clock |-> clock, parsed |-> value,
     emitted |-> <<>>, outcome |-> result.outcome, toast |-> result.toast,
     stored |-> StoredAfter(result)]

PassStep(name, on, st1, clock, pass) ==
    [op |-> name, id |-> 0, pre |-> tasks, on |-> on, post |-> pass.tasks,
     st0 |-> settings, st1 |-> st1, clock |-> clock, parsed |-> Null,
     emitted |-> pass.emitted, outcome |-> IF pass.changed THEN "ok" ELSE "noop",
     toast |-> "",
     stored |-> IF pass.changed THEN saveTasks(pass.tasks) ELSE storedTasks]

AddSteps(P(_)) ==
    \A textRaw \in TextInputs, reminderRaw \in ReminderInputs, clock \in ClockValues :
        P(TaskStep("addTask", nextId, clock,
                   zonedLocalToUtcMs(reminderRaw, settings.timezone),
                   addTask(tasks, settings, nextId, textRaw, reminderRaw, clock)))

EditSteps(P(_)) ==
    \A i \in DOMAIN tasks, nextText \in TextAnswers, rawReminder \in ReminderAnswers :
      \A clock \in ClockIfRead(Truthy(zonedLocalToUtcMs(rawReminder.reminder,
                                                       settings.timezone))) :
        P(TaskStep("editTask", tasks[i].id, clock,
                   IF nextText.cancel \/ rawReminder.cancel THEN Null
                   ELSE zonedLocalToUtcMs(rawReminder.reminder, settings.timezone),
                   editTask(tasks, settings, tasks[i].id, nextText, rawReminder, clock)))

ToggleSteps(P(_)) ==
    \A i \in DOMAIN tasks :
        P(TaskStep("toggleTask", tasks[i].id, 0, Null,
                   toggleTask(tasks, tasks[i].id, ~tasks[i].done)))

PassSteps(P(_)) ==
    /\ \A clock \in ClockIfRead(settings.notificationsEnabled) :
           P(PassStep("checkReminders", tasks, settings, clock,
                      checkReminders(tasks, settings, clock)))
    /\ \A value \in LeadInputs, clock \in ClockIfRead(settings.notificationsEnabled) :
           LET result == notifyBeforeChange(tasks, settings, value, clock)
           IN  P(PassStep("notifyBeforeChange", tasks, result.settings, clock, result.pass))
    /\ \A clock \in ClockIfRead(loadSettings(storedSettings).notificationsEnabled) :
           LET result == init(storedTasks, storedSettings, clock)
           IN  P(PassStep("init", loadTasks(storedTasks), result.settings, clock,
                          result.pass))

AllSteps(P(_)) == AddSteps(P) /\ EditSteps(P) /\ ToggleSteps(P) /\ PassSteps(P)

\* the reading of the terms the properties use
IsPass(s) == s.op \in {"checkReminders", "notifyBeforeChange", "init"}

\* "reminderAt is set", as the code tests it (`!task.reminderAt`): neither null nor 0
IsSet(task) == task.reminderAt # Null /\ task.reminderAt # Num(0)

\* the trigger instant: reminderAt - notifyBeforeMinutes * 60000
TriggerInstant(task, st) == task.reminderAt.v - st.notifyBeforeMinutes * 60000

Calls(s, taskId) == {k \in DOMAIN s.emitted : s.emitted[k].id = taskId}

TaskById(ts, taskId) == ts[IndexOf(ts, taskId)]

-----------------------------------------------------------------------------
(* C1 - C4: the fire decision of a pass *)

C1Step(s) ==
    (IsPass(s) /\ s.st1.notifyBeforeMinutes = s.st0.notifyBeforeMinutes) =>
        \A k \in DOMAIN s.emitted :
            /\ s.emitted[k].triggerAt \notin firedSince[s.emitted[k].id]
            /\ Cardinality(Calls(s, s.emitted[k].id)) = 1

Due(t, st, clock) ==
    /\ IsSet(t)
    /\ ~t.done
    /\ clock >= TriggerInstant(t, st)
    /\ t.notifiedFor # Num(TriggerInstant(t, st))

C2Step(s) ==
    (IsPass(s) /\ s.st1.notificationsEnabled) =>
        /\ DOMAIN s.post = DOMAIN s.on
        /\ \A i \in DOMAIN s.on :
               /\ Calls(s, s.on[i].id) # {} <=> Due(s.on[i], s.st1, s.clock)
               /\ s.post[i] = IF Due(s.on[i], s.st1, s.clock)
                              THEN [s.on[i] EXCEPT !.notifiedFor =
                                       Num(TriggerInstant(s.on[i], s.st1))]
                              ELSE s.on[i]

C3Step(s) ==
    (IsPass(s) /\ s.st1.notificationsEnabled) =>
        /\ \A k \in DOMAIN s.emitted :
               LET t == TaskById(s.on, s.emitted[k].id)
               IN  /\ s.emitted[k].triggerAt =
                          t.reminderAt.v - s.st1.notifyBeforeMinutes * 60000
                   /\ ~(s.clock < t.reminderAt.v - s.st1.notifyBeforeMinutes * 60000)
        /\ \A i \in DOMAIN s.on :
               LET t == s.on[i]
               IN  (/\ IsSet(t)
                    /\ ~t.done
                    /\ t.notifiedFor # Num(TriggerInstant(t, s.st1))
                    /\ s.clock = TriggerInstant(t, s.st1)) => Calls(s, t.id) # {}

\* C3: the trigger instant is reminderAt - notifyBeforeMinutes*60000; no pass emits a
\* notification for a task while now is below it, and a pass whose now equals it
\* exactly notifies an otherwise eligible task.
C3_TriggerInclusive == PassSteps(C3Step)

\* an eligible task whose trigger and the second before it are both clock readings:
\* the pass one second early emits nothing for it, the pass at the trigger does
C3_Witness ==
    \E i \in DOMAIN tasks :
        LET t == tasks[i]
            trigger == TriggerInstant(t, settings)
        IN  /\ settings.notificationsEnabled
            /\ settings.notifyBeforeMinutes > 0
            /\ IsSet(t)
            /\ trigger \in ClockValues
            /\ trigger - 1000 \in ClockValues
            /\ checkReminders(tasks, settings, trigger - 1000).tasks[i] = t
            /\ checkReminders(tasks, settings, trigger).tasks[i].notifiedFor = Num(trigger)
            /\ t.notifiedFor # Num(trigger)

C4Step(s) ==
    (IsPass(s) /\ s.st1.notificationsEnabled) =>
        \A i \in DOMAIN s.pre :
            LET t == s.pre[i]
            IN  (/\ ~t.done
                 /\ IsSet(t)
                 /\ t.notifiedFor # Num(TriggerInstant(t, s.st1))
                 /\ s.clock >= TriggerInstant(t, s.st1))
                => /\ Cardinality(Calls(s, t.id)) = 1
                   /\ \A later \in ClockValues :
                          \A k \in DOMAIN checkReminders(s.post, s.st1, later).emitted :
                              checkReminders(s.post, s.st1, later).emitted[k].id # t.id

\* C4: a not-done task in state.tasks whose trigger instant has passed, however long
\* ago, without a notification for it is notified exactly once by the next pass,
\* whether that pass is a timer pass, the pass of the lead-time handler or the pass
\* init runs after the page was closed and the tasks were loaded from storage again;
\* the passes after it do not notify for it.
C4_MissedTriggerFiresOnce == PassSteps(C4Step)

\* a pending task is in storage, notifications are on, and the page is opened at a
\* clock reading later than the task's trigger: init's pass notifies for it
C4_Witness ==
    /\ storedTasks.present
    /\ loadSettings(storedSettings).notificationsEnabled
    /\ \E i \in DOMAIN tasks, clock \in ClockValues :
           LET t == tasks[i]
               started == init(storedTasks, storedSettings, clock)
           IN  /\ IsSet(t)
               /\ ~t.done
               /\ t.notifiedFor = Null
               /\ clock > TriggerInstant(t, started.settings)
               /\ \E k \in DOMAIN started.pass.emitted :
                      started.pass.emitted[k].id = t.id

-----------------------------------------------------------------------------
(* C5 - C8: the de-duplication key *)

\* the task with this id is in both lists
InBoth(s, taskId) == HasTask(s.pre, taskId) /\ HasTask(s.post, taskId)

C5Step(s) ==
    \A i \in DOMAIN s.post :
        LET t == s.post[i]
        IN  t.notifiedFor # Null =>
                \/ /\ HasTask(s.pre, t.id)
                   /\ TaskById(s.pre, t.id).notifiedFor = t.notifiedFor
                \/ \E k \in Calls(s, t.id) : t.notifiedFor = Num(s.emitted[k].triggerAt)

\* C5: as claimed: whatever callback runs (loading at init, addTask, editTask,
\* toggleTask, a lead-time change, a pass), a task's notifiedFor afterwards is null, or
\* the value it had before, or the trigger instant of an emitReminder call the
\* callback made for that task; so by induction it is null or a trigger that fired.
C5_NotifiedForNullOrFired == AllSteps(C5Step)

C6ClaimStep(s) ==
    (s.op \in {"editTask", "toggleTask", "notifyBeforeChange"}) =>
        \A i \in DOMAIN s.pre :
            LET before == s.pre[i]
                after == s.post[i]
            IN  (\/ after.reminderAt # before.reminderAt
                 \/ after.done # before.done
                 \/ /\ s.st1.notifyBeforeMinutes # s.st0.notifyBeforeMinutes
                    /\ IsSet(before)
                    /\ before.notifiedFor = Num(TriggerInstant(before, s.st0)))
                => after.notifiedFor = Null

C6Step(s) ==
    /\ (s.op = "editTask" /\ s.outcome = "ok") =>
           \A i \in DOMAIN s.pre :
               s.post[i].notifiedFor = IF s.pre[i].id = s.id THEN Null
                                       ELSE s.pre[i].notifiedFor
    /\ (s.op = "toggleTask") =>
           \A i \in DOMAIN s.pre :
               s.post[i].notifiedFor =
                   IF s.pre[i].id = s.id /\ s.post[i].done THEN Null
                   ELSE s.pre[i].notifiedFor
    /\ (s.op = "notifyBeforeChange") =>
           \A i \in DOMAIN s.pre :
               s.post[i].notifiedFor =
                   IF Calls(s, s.pre[i].id) # {}
                   THEN Num(TriggerInstant(s.pre[i], s.st1))
                   ELSE s.pre[i].notifiedFor

C7Step(s) ==
    IsPass(s) =>
        \A i \in DOMAIN s.on :
            s.on[i].done => (Calls(s, s.on[i].id) = {} /\ s.post[i] = s.on[i])

\* C7: in every pass, at every clock reading, a task whose done flag is true gets no
\* emitReminder call and is left as it was, whatever its reminderAt and notifiedFor.
C7_DoneNeverNotified == PassSteps(C7Step)

\* a done task with a reminder whose trigger is behind some clock reading, with
\* notifications on
C7_Witness ==
    \E i \in DOMAIN tasks, clock \in ClockValues :
        /\ settings.notificationsEnabled
        /\ tasks[i].done
        /\ IsSet(tasks[i])
        /\ clock >= TriggerInstant(tasks[i], settings)
        /\ tasks[i].notifiedFor # Num(TriggerInstant(tasks[i], settings))

C8Step(s) ==
    /\ (s.op = "toggleTask" /\ TaskById(s.post, s.id).done) =>
           /\ TaskById(s.post, s.id).notifiedFor = Null
           /\ TaskById(s.post, s.id).reminderAt = TaskById(s.pre, s.id).reminderAt
    /\ (IsPass(s) /\ s.st1.notificationsEnabled) =>
           \A i \in DOMAIN s.on :
               LET t == s.on[i]
               IN  (/\ reopened[t.id] = "reopened"
                    /\ ~t.done
                    /\ IsSet(t)
                    /\ s.clock >= TriggerInstant(t, s.st1)) => Calls(s, t.id) # {}

\* C8: toggleTask(id, true) leaves the task with notifiedFor null and the reminderAt
\* it had; a task that was completed after it had been notified and was reopened
\* with toggleTask(id, false) is notified by the next pass (notifications enabled)
\* whose now is at or after its trigger.
C8_CompletionFreesTheSlot == ToggleSteps(C8Step) /\ PassSteps(C8Step)

\* a task that was notified, completed and reopened, with its trigger behind some
\* clock reading
C8_Witness ==
    \E i \in DOMAIN tasks, clock \in ClockValues :
        /\ settings.notificationsEnabled
        /\ reopened[tasks[i].id] = "reopened"
        /\ ~tasks[i].done
        /\ IsSet(tasks[i])
        /\ tasks[i].notifiedFor = Null
        /\ clock >= TriggerInstant(tasks[i], settings)

-----------------------------------------------------------------------------
(* C9, C10: rescheduling and the validation of the instant *)

\* the calls a timer pass over this list would make for the task, at this clock reading
CallsAt(ts, st, clock, taskId) ==
    {k \in DOMAIN checkReminders(ts, st, clock).emitted :
        checkReminders(ts, st, clock).emitted[k].id = taskId}

C9Step(s) ==
    /\ (/\ s.op = "editTask"
        /\ s.outcome = "ok"
        /\ s.parsed # Null
        /\ s.parsed # TaskById(s.pre, s.id).reminderAt) =>
           /\ TaskById(s.post, s.id).reminderAt = s.parsed
           /\ TaskById(s.post, s.id).notifiedFor = Null
    /\ (IsPass(s) /\ s.st1.notificationsEnabled) =>
           \A i \in DOMAIN s.on :
               LET t == s.on[i]
               IN  (rescheduled[t.id] /\ ~t.done /\ t.reminderAt # Null) =>
                       /\ s.clock >= TriggerInstant(t, s.st1) =>
                              /\ Cardinality(Calls(s, t.id)) = 1
                              /\ \A later \in ClockValues :
                                     CallsAt(s.post, s.st1, later, t.id) = {}
                       /\ s.clock < TriggerInstant(t, s.st1) => Calls(s, t.id) = {}

\* C9, as claimed: an editTask that changes the reminder to a new accepted instant
\* leaves the task with that reminderAt and notifiedFor null; from then on, until it
\* has fired, every pass (notifications enabled) over the not-done task fires for it
\* exactly once if now >= newReminderAt - lead*60000, after which passes do not fire
\* for it, and does not fire for it if now is below that instant.
C9_RescheduledFiresOnceAtNewTrigger == AllSteps(C9Step)

C10Step(s) ==
    (/\ s.op \in {"addTask", "editTask"}
     /\ IsFinite(s.parsed)
     /\ s.parsed.v < s.clock) =>
        /\ s.outcome = "rejected"
        /\ s.toast # ""
        /\ s.post = s.pre

\* what the backend-capable client's two parsers answer for an instant before now
C10Backend ==
    \A raw \in ReminderInputs, clock \in ClockValues :
        LET ms == zonedLocalToUtcMs(raw, settings.timezone)
        IN  (IsFinite(ms) /\ ms.v < clock) =>
                /\ ~parseReminderFromInput(raw, settings.timezone, clock).ok
                /\ parseReminderFromInput(raw, settings.timezone, clock).message = MsgPast
                /\ ~parsePromptReminder(raw, settings.timezone, clock).ok
                /\ parsePromptReminder(raw, settings.timezone, clock).message = MsgPast

\* C10, as claimed: every addTask and editTask whose typed reminder parses to an
\* instant strictly before the current instant ends with an error toast and leaves
\* the task list as it was (nothing stored, nothing clamped), in the local client; and
\* the backend-capable client's parsers refuse every such instant.
C10_PastInstantRejected == AddSteps(C10Step) /\ EditSteps(C10Step) /\ C10Backend

-----------------------------------------------------------------------------
(* C11: a rejected add or edit *)

\* another text than any task has, typed into the edit prompt
OtherText == <<"b">>

C11Step(s) ==
    (s.op \in {"addTask", "editTask"} /\ s.outcome = "rejected") =>
        /\ s.toast \in {MsgBadDate, MsgBadFormat, MsgPast, MsgNoText, MsgEmptyText}
        /\ s.post = s.pre
        /\ s.stored = storedTasks

C11EditsOfOtherText ==
    \A i \in DOMAIN tasks, rawReminder \in ReminderAnswers :
      \A clock \in ClockIfRead(Truthy(zonedLocalToUtcMs(rawReminder.reminder,
                                                       settings.timezone))) :
        C11Step(TaskStep("editTask", tasks[i].id, clock,
                         zonedLocalToUtcMs(rawReminder.reminder, settings.timezone),
                         editTask(tasks, settings, tasks[i].id, TextAnswer(OtherText),
                                  rawReminder, clock)))

\* C11: every addTask and editTask call that ends with a rejection (empty text,
\* malformed date/time, elapsed reminder) leaves state.tasks exactly as it was, the
\* edited task's text, reminderAt and notifiedFor included, and leaves the stored list
\* as it was, also when the same edit typed another text.
C11_RejectionMutatesNothing ==
    AddSteps(C11Step) /\ EditSteps(C11Step) /\ C11EditsOfOtherText

\* a task with a reminder, notified for it, in a state where an edit that types
\* another text is rejected once for a malformed and once for an elapsed reminder
C11_Witness ==
    \E i \in DOMAIN tasks, clock \in ClockValues, elapsed \in ReminderInputs :
        /\ IsSet(tasks[i])
        /\ Truthy(tasks[i].notifiedFor)
        /\ tasks[i].text # OtherText
        /\ storedTasks.present
        /\ editTask(tasks, settings, tasks[i].id, TextAnswer(OtherText),
                    ReminderAnswer(BadInput), clock).toast = MsgBadFormat
        /\ editTask(tasks, settings, tasks[i].id, TextAnswer(OtherText),
                    ReminderAnswer(elapsed), clock).toast = MsgPast

-----------------------------------------------------------------------------
(* C12: the conversion of a text that does not decompose, and of one that does *)

\* the text splits into a date part and a time part that yield five finite integers
FiveIntegers(text) == Decomposed(text).kind \in {"wall", "range"}

\* C12, as claimed: zonedLocalToUtcMs returns null, without raising, for every text
\* that does not decompose into five finite integers, and a finite instant for
\* every text that does.
C12_NullOrFiniteInstant ==
    conv.pc \notin {"idle", "typed"} =>
        /\ ~FiveIntegers(conv.text) => conv.utc = Null
        /\ FiveIntegers(conv.text) => IsFinite(conv.utc)

\* what holds of it: null exactly for the texts that do not decompose, and for the
\* others a finite instant unless Date.UTC of the five integers is NaN, when the call
\* raises
C12_NullFiniteOrRaised ==
    conv.pc \notin {"idle", "typed"} =>
        /\ ~FiveIntegers(conv.text) <=> conv.utc = Null
        /\ Decomposed(conv.text).kind = "wall" <=> IsFinite(conv.utc)
        /\ Decomposed(conv.text).kind = "range" <=> conv.utc = Thrown

-----------------------------------------------------------------------------
(* C13: zones with a fixed offset *)

\* the zones of the select among ConvZones: their offset never changes
FixedZones == ConvZones \cap RU_TIMEZONES

\* naiveUTC(components): Date.UTC(year, month - 1, day, hour, minute)
NaiveUTC(c) == DateUTC(c.year, c.month - 1, c.day, c.hour, c.minute, 0).v

\* a conversion of a text built from valid components, in a fixed-offset zone
FixedConversion ==
    /\ conv.pc \notin {"idle", "typed"}
    /\ conv.components # NoComponents
    /\ conv.zone \in FixedZones

\* the example of 09:30 in Europe/Moscow, on the second day of 1970: the
\* millisecond counts of 2025 are beyond 32-bit integers
ExampleComponents == [year |-> 1970, month |-> 1, day |-> 2, hour |-> 9, minute |-> 30]
ExampleInstant == DayMs + 6 * HourMs + 30 * MinuteMs

\* C13, as claimed: in a zone with the fixed offset o, zonedLocalToUtcMs returns
\* naiveUTC(components) - o for every valid wall-clock input; 09:30 in Europe/Moscow
\* is 06:30:00Z of the same day.
C13_FixedOffsetSubtracted ==
    FixedConversion =>
        /\ conv.utc = Num(NaiveUTC(conv.components) - ZoneHours(conv.zone) * HourMs)
        /\ (conv.components = ExampleComponents /\ conv.zone = "Europe/Moscow") =>
               conv.utc = Num(ExampleInstant)

\* what holds of it: the offset is subtracted unless the engine counts the hours
\* 1 to 24 and the wall clock is in the hour after midnight, when the instant
\* returned is a day earlier
C13_DayEarlyAfterMidnight ==
    FixedConversion =>
        conv.utc = Num(NaiveUTC(conv.components) - ZoneHours(conv.zone) * HourMs
                         - (IF hourCycle = "h24" /\ conv.components.hour = 0
                            THEN DayMs ELSE 0))

-----------------------------------------------------------------------------
(* C14: from components to an instant and back *)

\* the offsets a zone ever applies
ZoneOffsets(timeZone) ==
    IF timeZone \in SyntheticZones THEN {HourMs, 2 * HourMs}
    ELSE {ZoneHours(timeZone) * HourMs}

\* the instants whose wall clock in the zone reads `naive`: none inside a gap, two
\* inside an overlap, one otherwise
InstantsOf(timeZone, naive) ==
    {t \in {naive - o : o \in ZoneOffsets(timeZone)} : t + OffsetAt(timeZone, t) = naive}

InGap(timeZone, naive) == InstantsOf(timeZone, naive) = {}
InOverlap(timeZone, naive) == Cardinality(InstantsOf(timeZone, naive)) = 2

\* a text built from valid components was converted and the instant read back
ReadBackDone ==
    /\ conv.pc \notin {"idle", "typed", "converted"}
    /\ conv.components # NoComponents

\* the parts read back are the components typed, with second 0
SameComponents ==
    conv.parts = [year |-> conv.components.year, month |-> conv.components.month,
                  day |-> conv.components.day, hour |-> conv.components.hour,
                  minute |-> conv.components.minute, second |-> 0]

\* C14, as claimed: for all valid components and every zone, getZoneParts of the
\* instant zonedLocalToUtcMs returns for the formatted components reproduces year,
\* month, day, hour and minute, with second 0, except for wall-clock times inside a
\* gap or an overlap.
C14_RoundTrip ==
    (/\ ReadBackDone
     /\ ~InGap(conv.zone, NaiveUTC(conv.components))
     /\ ~InOverlap(conv.zone, NaiveUTC(conv.components))) => SameComponents

\* what holds of it: the components come back for years from 100 on where the
\* engine counts the hours 0 to 23, and where it counts them 1 to 24 in the
\* fixed-offset zones for every hour typed but 0
C14_ExceptMidnightAndEarlyYears ==
    (/\ ReadBackDone
     /\ ~InGap(conv.zone, NaiveUTC(conv.components))
     /\ ~InOverlap(conv.zone, NaiveUTC(conv.components))
     /\ conv.components.year >= 100
     /\ \/ hourCycle = "h23"
        \/ conv.zone \in FixedZones /\ conv.components.hour # 0) => SameComponents

\* the two failures: an hour of 24 on a day before, and the year 1970 for the year 70
C14_MidnightReadAs24 ==
    (ReadBackDone /\ hourCycle = "h24" /\ conv.components.hour = 0
        /\ conv.zone \in FixedZones) =>
        /\ conv.parts.hour = 24
        /\ conv.parts.day # conv.components.day

C14_EarlyYearReadAs1900s ==
    (ReadBackDone /\ conv.components.year < 100) =>
        conv.parts.year \in {conv.components.year + 1900, conv.components.year + 1899}

-----------------------------------------------------------------------------
(* C15: a zone whose offset changes once *)

\* a text built from valid components was converted in a synthetic zone, and its
\* wall clock exists there
ExistingWallClockConverted ==
    /\ conv.pc \notin {"idle", "typed"}
    /\ conv.components # NoComponents
    /\ conv.zone \in SyntheticZones
    /\ ~InGap(conv.zone, NaiveUTC(conv.components))

\* r + offset(zone, r) = naiveUTC(components)
FixedPoint ==
    /\ IsFinite(conv.utc)
    /\ conv.utc.v + OffsetAt(conv.zone, conv.utc.v) = NaiveUTC(conv.components)

\* C15, as claimed: in a zone whose offset changes by one jump, three refinements
\* suffice: for every wall-clock time that exists in the zone, on the days around
\* the transition, the instant r returned satisfies r + offset(zone, r) =
\* naiveUTC(components).
C15_ThreeIterationsConverge == ExistingWallClockConverted => FixedPoint

\* what holds of it: the fixed point is reached on an engine that counts the hours
\* 0 to 23
C15_ConvergesWithHours0To23 ==
    (ExistingWallClockConverted /\ hourCycle = "h23") => FixedPoint

-----------------------------------------------------------------------------
(* C16: wall-clock times inside a gap or an overlap *)

\* a text built from valid components was converted in a synthetic zone where its
\* wall clock does not exist or exists twice
GapOrOverlapConverted ==
    /\ conv.pc \notin {"idle", "typed"}
    /\ conv.components # NoComponents
    /\ conv.zone \in SyntheticZones
    /\ \/ InGap(conv.zone, NaiveUTC(conv.components))
       \/ InOverlap(conv.zone, NaiveUTC(conv.components))

\* a finite instant: naiveUTC(components) minus one of the zone's two offsets
OneOfTwoOffsets ==
    /\ IsFinite(conv.utc)
    /\ \E o \in ZoneOffsets(conv.zone) : conv.utc.v = NaiveUTC(conv.components) - o

\* C16, as claimed: for a wall-clock time inside a gap or an overlap,
\* zonedLocalToUtcMs ends after its three refinements with a finite instant, never
\* null, that is naiveUTC(components) minus one of the two offsets in effect around
\* the transition.
C16_GapOrOverlapResolved == GapOrOverlapConverted => OneOfTwoOffsets

\* what holds of it: the instant is always finite, and it is naiveUTC minus one of
\* the two offsets on an engine that counts the hours 0 to 23, and on any engine in
\* the zones whose transition is away from midnight
C16_FiniteInstant == GapOrOverlapConverted => IsFinite(conv.utc)

C16_ResolvedAwayFromMidnight ==
    (/\ GapOrOverlapConverted
     /\ \/ hourCycle = "h23"
        \/ conv.zone \in {"Synthetic/Forward", "Synthetic/Back"}) => OneOfTwoOffsets

\* gap and overlap are both met: 02:xx of the day Synthetic/Forward skips its third
\* hour, 23:xx of the day Synthetic/BackAtMidnight repeats its last
C16_GapMet ==
    /\ GapOrOverlapConverted
    /\ conv.zone = "Synthetic/Forward"
    /\ InGap(conv.zone, NaiveUTC(conv.components))
    /\ conv.components.hour = 2

C16_OverlapMet ==
    /\ GapOrOverlapConverted
    /\ conv.zone = "Synthetic/BackAtMidnight"
    /\ InOverlap(conv.zone, NaiveUTC(conv.components))
    /\ conv.components.hour = 23

-----------------------------------------------------------------------------
(* C17: the edit prompt's text, parsed again *)

\* the instant converted is taken as a stored reminderAt in one of the select's zones
\* and has been formatted and parsed again
FormattedAndReparsed ==
    /\ conv.pc \in {"reparsed", "edited"}
    /\ conv.zone \in FixedZones

\* parseReminderPromptValue(formatForReminderPrompt(t)) is ok with value t
ParsedBack ==
    /\ conv.again.ok
    /\ conv.again.value = conv.utc

\* the edit whose prompts were accepted as prefilled left reminderAt as it was
ReminderKept == conv.edited.tasks[1].reminderAt = conv.utc

\* C17, as claimed: for every stored reminderAt t, a whole minute, and the timezone
\* unchanged, parseReminderPromptValue(formatForReminderPrompt(t)) is ok with
\* value exactly t, so that accepting the prefilled reminder text in editTask
\* leaves reminderAt unchanged.
C17_PromptRoundTrip ==
    FormattedAndReparsed =>
        /\ ParsedBack
        /\ conv.pc = "edited" => ReminderKept

\* what holds of it: the text parses back to t for every t, and the edit keeps
\* every reminderAt but 0, which it replaces by null
C17_ParsedBack == FormattedAndReparsed => ParsedBack

C17_KeptUnlessZero ==
    (FormattedAndReparsed /\ conv.pc = "edited") =>
        /\ conv.utc # Num(0) => ReminderKept
        /\ conv.utc = Num(0) =>
               /\ conv.prefill = <<>>
               /\ conv.edited.outcome = "ok"
               /\ conv.edited.tasks[1].reminderAt = Null

\* the backend-capable client's parser holds the past check itself: it parses the
\* formatted text back to t unless t has elapsed, when it refuses it
C17_BackendParsedBackUnlessElapsed ==
    FormattedAndReparsed =>
        \A clock \in ClockValues :
            LET parsed == parsePromptReminder(PromptAnswerValue(conv.formatted),
                                              conv.zone, clock)
            IN  IF conv.utc.v < clock
                THEN ~parsed.ok /\ parsed.message = MsgPast
                ELSE parsed.ok /\ parsed.value = conv.utc

-----------------------------------------------------------------------------
(* The settings on their own: the page is opened on whatever localStorage holds,  *)
(* and the three settings controls and a reload are used in any order.            *)

\* a stored value, by the three fields loadSettings reads
StoredValue(timezone, enabled, lead) ==
    [kind |-> "value",
     value |-> [timezone |-> timezone, notificationsEnabled |-> enabled,
                notifyBeforeMinutes |-> lead]]

\* what localStorage[SETTINGS_KEY] may hold when the page is opened: nothing, a text
\* that is no JSON, the JSON null, a JSON scalar (no fields), an unknown zone with
\* a lead of 500, a misspelt zone with a lead that is no number, a zone field that
\* is a number with a negative lead, and two values the page itself could have
\* saved, one of them with a fractional lead
StoredSamples ==
    {[kind |-> "missing", value |-> StoredJson(DefaultSettings)],
     [kind |-> "malformed", value |-> StoredJson(DefaultSettings)],
     [kind |-> "null", value |-> StoredJson(DefaultSettings)],
     StoredValue(NoField, FALSE, UndefinedText),
     StoredValue("Mars/Phobos", TRUE, <<"5", "0", "0">>),
     StoredValue("europe/moscow", TRUE, <<"a", "b", "c">>),
     StoredValue("42", FALSE, <<"-", "3">>),
     StoredValue("Asia/Omsk", TRUE, <<"1", "5">>),
     StoredValue("Europe/Samara", FALSE, <<"1", "2", ".", "7">>)}

\* the values the timezone select can deliver: its eleven options, and two values
\* it has no option for
ZoneChoices == RU_TIMEZONES \cup {"Mars/Phobos", ""}

\* what can be typed into the lead-time field
LeadTexts ==
    {<<"1", "0">>, <<"-", "5">>, <<"a", "b", "c">>, <<"5", "0", "0">>,
     <<"1", "2", ".", "7">>, <<>>, <<" ", "7">>, <<"1", "2", "0">>, <<"1", "2", "1">>}

\* init() on what localStorage holds, with no tasks stored
SettingsInit ==
    /\ tasks = <<>>
    /\ storedTasks = [present |-> FALSE, items |-> <<>>]
    /\ storedSettings \in StoredSamples
    /\ settings = loadSettings(storedSettings)
    /\ nextId = 1
    /\ firedSince = [id \in Ids |-> {}]
    /\ reopened = [id \in Ids |-> "no"]
    /\ rescheduled = [id \in Ids |-> FALSE]
    /\ hourCycle \in HourCycles
    /\ conv = Idle
    /\ run = Quiet
    /\ net = Offline

SettingsNext ==
    \/ \E value \in ZoneChoices : TimezoneChange(value)
    \/ NotificationsEnabledChange(~settings.notificationsEnabled)
    \/ \E text \in LeadTexts, clock \in ClockIfRead(settings.notificationsEnabled) :
           NotifyBeforeChange(parseInt(text), clock)
    \/ \E clock \in ClockIfRead(loadSettings(storedSettings).notificationsEnabled) :
           Reload(clock)

SettingsSpec == SettingsInit /\ [][SettingsNext]_vars

-----------------------------------------------------------------------------
(* C18: the timezone setting *)

\* what is stored is a value whose timezone field is one of the eleven
StoredZoneSupported ==
    storedSettings.kind = "value" /\ timezoneMapHas(storedSettings.value.timezone)

\* C18: in every reachable state settings.timezone is one of the eleven supported
\* zones; loading what is stored yields the stored zone if it is one of them and
\* Europe/Moscow for a missing, unknown or malformed value; and a change of the
\* select to a value outside the set leaves the settings as they are and saves
\* nothing.
C18_TimezoneSupported ==
    /\ settings.timezone \in RU_TIMEZONES
    /\ loadSettings(storedSettings).timezone
           = (IF StoredZoneSupported THEN storedSettings.value.timezone ELSE "Europe/Moscow")
    /\ \A value \in ZoneChoices \ RU_TIMEZONES :
           /\ timezoneChange(tasks, settings, value).settings = settings
           /\ ~timezoneChange(tasks, settings, value).saved

\* the page was opened on a stored value with an unknown zone and shows Europe/Moscow
C18_Witness ==
    /\ storedSettings.kind = "value"
    /\ storedSettings.value.timezone = "Mars/Phobos"
    /\ settings.timezone = "Europe/Moscow"

-----------------------------------------------------------------------------
(* C19: the lead time *)

\* the integer of LeadMin .. LeadMax nearest to a parsed number, LeadFallback for NaN
Clamped(num) ==
    IF ~IsFinite(num) THEN LeadFallback
    ELSE IF num.v < LeadMin THEN LeadMin
    ELSE IF num.v > LeadMax THEN LeadMax
    ELSE num.v

\* String(raw?.notifyBeforeMinutes) of what loadJson returns
StoredLeadText ==
    IF storedSettings.kind = "value" THEN storedSettings.value.notifyBeforeMinutes
    ELSE NumberString(DefaultSettings.notifyBeforeMinutes)

\* C19: in every reachable state settings.notifyBeforeMinutes is an integer from 0
\* to 120; the value loaded from what is stored and the value the lead-time field's
\* handler leaves are the number read, clamped into that range, and 0 where what is
\* read is no number.
C19_LeadTimeInRange ==
    /\ settings.notifyBeforeMinutes \in LeadMin .. LeadMax
    /\ loadSettings(storedSettings).notifyBeforeMinutes = Clamped(parseInt(StoredLeadText))
    /\ loadSettings(storedSettings).notifyBeforeMinutes \in LeadMin .. LeadMax
    /\ \A text \in LeadTexts, clock \in ClockValues :
           LET left == notifyBeforeChange(tasks, settings, parseInt(text), clock).settings
           IN  /\ left.notifyBeforeMinutes \in LeadMin .. LeadMax
               /\ left.notifyBeforeMinutes = Clamped(parseInt(text))
               /\ ~IsFinite(parseInt(text)) => left.notifyBeforeMinutes = 0

\* the page was opened on a stored lead of 500 and holds 120
C19_Witness ==
    /\ storedSettings.kind = "value"
    /\ storedSettings.value.notifyBeforeMinutes = <<"5", "0", "0">>
    /\ settings.notifyBeforeMinutes = 120

\* and the handler has clamped a typed value: 120 is held and stored
C19_TypedValueClamped ==
    /\ settings.notifyBeforeMinutes = 120
    /\ storedSettings = saveSettings(settings)

-----------------------------------------------------------------------------
(* C20: a change of the timezone and the tasks *)

\* C20: whatever the timezone select delivers, its handler leaves every task as it
\* is, reminderAt and notifiedFor included, and a pass run after it, at whatever
\* clock reading, calls emitReminder for the same tasks with the same trigger
\* instants, and leaves the same list, as a pass run without the change.
C20_TimezoneChangeKeepsInstants ==
    \A value \in ZoneInputs :
        LET changed == timezoneChange(tasks, settings, value)
        IN  /\ changed.tasks = tasks
            /\ \A clock \in ClockIfRead(settings.notificationsEnabled) :
                   /\ checkReminders(changed.tasks, changed.settings, clock).emitted
                          = checkReminders(tasks, settings, clock).emitted
                   /\ checkReminders(changed.tasks, changed.settings, clock).tasks
                          = checkReminders(tasks, settings, clock).tasks

\* the zone was changed to Europe/Samara while a task held a reminder typed in
\* Europe/Moscow, another pass is due to fire for it, and a change back to
\* Europe/Moscow is possible
C20_Witness ==
    /\ settings.timezone = "Europe/Samara"
    /\ settings.notificationsEnabled
    /\ storedSettings = saveSettings(settings)
    /\ \E i \in DOMAIN tasks :
           /\ tasks[i].reminderAt = Num(Base)
           /\ Truthy(tasks[i].notifiedFor)
           /\ \E clock \in ClockValues :
                  checkReminders(tasks, settings, clock).emitted # <<>>

-----------------------------------------------------------------------------
(* The event loop: checkReminders followed task by task, among the callbacks that  *)
(* share the page with it.  A callback begins when the stack is empty; an async     *)
(* handler leaves the stack at its await.                                           *)

Permissions == {"unavailable", "default", "denied", "granted"}

\* what a callback that called checkReminders did, in the order it did it: "enter"
\* and "return" (of checkReminders), "system" (a Notification was constructed for
\* the task), "reminder" and "notice" (showToast with the reminder, and with the
\* note that a system notification was sent), "write" (notifiedFor assigned), "save"
\* (saveTasks), "saveSettings", "render", "clock" (updateClock), "raised" (ended by
\* an exception)
Event(e, id) == [e |-> e, id |-> id]

\* the page has an element with id "toast" (ui.toast is not null)
ToastElement == TRUE

\* showToast: the one toast element takes the new message and is un-hidden
showToast(toast, kind, id) == IF ~ToastElement THEN toast ELSE [kind |-> kind, id |-> id]

\* a variant without the try/catch around the constructor
sendSystemNotification_NoCatch(permission, throws) ==
    IF permission = "unavailable" THEN "false"
    ELSE IF permission # "granted" THEN "false"
    ELSE IF throws THEN "raised" ELSE "true"

\* sendSystemNotification: throws is whether `new Notification(...)` throws, as it
\* does on platforms that show notifications through a service worker only
sendSystemNotification(permission, throws) ==
    IF permission = "unavailable" THEN "false"
    ELSE IF permission # "granted" THEN "false"
    ELSE IF throws THEN "false" ELSE "true"

\* emitReminder: what it does and the toast element it leaves; it has no try of its
\* own, so an exception of sendSystemNotification would end it
emitReminder(toast, task, permission, throws) ==
    LET sentSystem == sendSystemNotification(permission, throws)
    IN  IF sentSystem = "raised"
        THEN [raised |-> TRUE, log |-> <<>>, toast |-> toast]
        ELSE IF sentSystem = "false"
        THEN [raised |-> FALSE, log |-> <<Event("reminder", task.id)>>,
              toast |-> showToast(toast, "reminder", task.id)]
        ELSE [raised |-> FALSE,
              log |-> <<Event("system", task.id), Event("notice", task.id)>>,
              toast |-> showToast(toast, "notice", task.id)]

\* a variant whose loop awaits the dispatch: the pass leaves the stack between tasks
OnStack_AwaitInLoop(r) == FALSE

\* whether a callback is on the stack: checkReminders, emitReminder,
\* sendSystemNotification and showToast have no await, so a pass stays on it from
\* its first statement to its return
OnStack(r) == r.pc # "idle"

\* the event loop takes the next callback when the stack is empty
CanStart == ~OnStack(run)

\* the record of a callback that begins now
Begun(r) ==
    [r EXCEPT !.log = <<>>, !.painted = FALSE, !.overlapped = @ \/ r.pc # "idle"]

Did(r, events) == [r EXCEPT !.log = @ \o events]

\* the events between the call of checkReminders and its return
EnterAt(log) == CHOOSE k \in DOMAIN log : log[k].e = "enter"
ReturnAt(log) == CHOOSE k \in DOMAIN log : log[k].e = "return"
HasEvent(log, e) == \E k \in DOMAIN log : log[k].e = e
InPass(log) == SubSeq(log, EnterAt(log) + 1, ReturnAt(log) - 1)

\* a variant without the `if (changed)` test
AfterLoop_Unconditional(changed) == <<Event("save", 0), Event("render", 0)>>

\* what follows the loop of checkReminders
AfterLoop(changed) ==
    IF changed THEN <<Event("save", 0), Event("render", 0)>> ELSE <<>>

\* what the caller does after checkReminders returns: the lead-time handler renders,
\* init sets the two intervals
AfterReturn(source) == IF source = "notifyBefore" THEN <<Event("render", 0)>> ELSE <<>>

\* checkReminders returns to its caller, and the caller to the event loop
Finished(r) ==
    [Did(r, <<Event("return", 0)>> \o AfterReturn(r.source))
        EXCEPT !.pc = "idle", !.source = "none", !.on = <<>>, !.i = 0, !.now = 0,
               !.changed = FALSE]

\* a variant without the early return
Called_NoEarlyReturn(r, source, ts, st, clock) ==
    [Did(r, <<Event("enter", 0)>>)
        EXCEPT !.source = source, !.on = ts, !.pc = "loop", !.i = 1, !.now = clock,
               !.changed = FALSE]

\* checkReminders is called: the early return, or Date.now() and the loop's start
Called(r, source, ts, st, clock) ==
    LET entered == [Did(r, <<Event("enter", 0)>>) EXCEPT !.source = source, !.on = ts]
    IN  IF ~st.notificationsEnabled THEN Finished(entered)
        ELSE [entered EXCEPT !.pc = "loop", !.i = 1, !.now = clock, !.changed = FALSE]

\* what the event loop leaves alone
PassFrame == UNCHANGED <<nextId, firedSince, reopened, rescheduled, hourCycle, conv, net>>

\* setInterval(checkReminders, 15_000): the timer calls checkReminders
TimerPass(clock) ==
    /\ CanStart
    /\ run' = Called(Begun(run), "timer", tasks, settings, clock)
    /\ UNCHANGED <<tasks, settings, storedTasks, storedSettings>>
    /\ PassFrame

\* the lead-time field's change handler up to its call of checkReminders
LeadTimeChange(value, clock) ==
    /\ CanStart
    /\ LET next == notifyBeforeChange(tasks, settings, value, clock).settings
       IN  /\ settings' = next
           /\ storedSettings' = saveSettings(next)
           /\ run' = Called(Did(Begun(run), <<Event("saveSettings", 0)>>),
                            "notifyBefore", tasks, next, clock)
    /\ UNCHANGED <<tasks, storedTasks>>
    /\ PassFrame

\* init() up to its call of checkReminders, on a page loaded again: the toast element
\* is new and a pending request for permission is gone
PageLoad(clock) ==
    /\ CanStart
    /\ LET loaded == loadSettings(storedSettings)
           ts == loadTasks(storedTasks)
           fresh == [Quiet EXCEPT !.permission = run.permission,
                                  !.overlapped = run.overlapped \/ run.pc # "idle",
                                  !.painted = FALSE]
       IN  /\ settings' = loaded
           /\ tasks' = ts
           /\ run' = Called(Did(fresh, <<Event("render", 0), Event("clock", 0)>>),
                            "init", ts, loaded, clock)
    /\ UNCHANGED <<storedTasks, storedSettings>>
    /\ PassFrame

\* one turn of the loop of checkReminders, for the task at run.i
LoopBody(throws) ==
    /\ run.pc = "loop"
    /\ run.i <= Len(tasks)
    /\ LET task == tasks[run.i]
           leadMs == settings.notifyBeforeMinutes * MinuteMs
           sent == emitReminder(run.toast, task, run.permission, throws)
       IN  IF ~Fires(task, run.now, leadMs)
           THEN /\ run' = [run EXCEPT !.i = @ + 1]
                /\ UNCHANGED tasks
           ELSE IF sent.raised
           THEN /\ run' = [Did(run, <<Event("raised", task.id)>>)
                              EXCEPT !.pc = "idle", !.source = "none", !.on = <<>>,
                                     !.i = 0, !.now = 0, !.changed = FALSE]
                /\ UNCHANGED tasks
           ELSE /\ tasks' = [tasks EXCEPT ![run.i].notifiedFor =
                                Num(triggerAtOf(task, leadMs))]
                /\ run' = [Did(run, sent.log \o <<Event("write", task.id)>>)
                              EXCEPT !.toast = sent.toast, !.i = @ + 1, !.changed = TRUE]
    /\ UNCHANGED <<settings, storedTasks, storedSettings>>
    /\ PassFrame

\* the statements after the loop, and the return
LoopEnd ==
    /\ run.pc = "loop"
    /\ run.i > Len(tasks)
    /\ storedTasks' = IF HasEvent(AfterLoop(run.changed), "save") THEN saveTasks(tasks)
                      ELSE storedTasks
    /\ run' = Finished(Did(run, AfterLoop(run.changed)))
    /\ UNCHANGED <<tasks, settings, storedSettings>>
    /\ PassFrame

\* setInterval(updateClock, 1000): the display tick
DisplayTick ==
    /\ CanStart
    /\ ClockDone(updateClock(tasks, settings, storedTasks, storedSettings))
    /\ run' = Begun(run)
    /\ PassFrame

\* the notifications checkbox's change handler, with its hint
EnabledChange(checked) ==
    /\ CanStart
    /\ SettingsBecome(notificationsEnabledChange(settings, checked))
    /\ run' = IF checked /\ run.permission = "default"
              THEN [Begun(run) EXCEPT !.toast = showToast(run.toast, "message", 0)]
              ELSE Begun(run)
    /\ UNCHANGED <<tasks, storedTasks>>
    /\ PassFrame

\* the click handler of the permission button, up to its await
RequestPermission ==
    /\ CanStart
    /\ ~run.awaiting
    /\ run' = IF run.permission = "unavailable"
              THEN [Begun(run) EXCEPT !.toast = showToast(run.toast, "message", 0)]
              ELSE [Begun(run) EXCEPT !.awaiting = TRUE]
    /\ UNCHANGED <<tasks, settings, storedTasks, storedSettings>>
    /\ PassFrame

\* the same handler after its await: the promise is settled with the user's choice,
\* or rejected
PermissionSettled(choice) ==
    /\ CanStart
    /\ run.awaiting
    /\ run' = [Begun(run)
                  EXCEPT !.awaiting = FALSE,
                         !.permission = IF choice = "rejected" THEN @ ELSE choice,
                         !.toast = showToast(run.toast, "message", 0)]
    /\ UNCHANGED <<tasks, settings, storedTasks, storedSettings>>
    /\ PassFrame

\* the browser paints the page: it does so between two callbacks, never within one
Paint ==
    /\ CanStart
    /\ ~run.painted
    /\ run' = [run EXCEPT !.painted = TRUE]
    /\ UNCHANGED <<tasks, settings, storedTasks, storedSettings>>
    /\ PassFrame

\* the timer showToast sets: 2.6 s later the toast is hidden (the page is visible, so
\* it has been painted by then)
HideToast ==
    /\ CanStart
    /\ run.painted
    /\ run.toast # NoToast
    /\ run' = [Begun(run) EXCEPT !.toast = NoToast]
    /\ UNCHANGED <<tasks, settings, storedTasks, storedSettings>>
    /\ PassFrame

\* the tasks a pass can meet: one without a reminder, and with a reminder at Base
\* one that is open and one that is done; none is notified yet
PassTask(id) ==
    {[id |-> id, text |-> <<"a">>, done |-> FALSE, reminderAt |-> Null,
      notifiedFor |-> Null]}
    \cup {[id |-> id, text |-> <<"a">>, done |-> d, reminderAt |-> Num(Base),
           notifiedFor |-> Null] : d \in BOOLEAN}

PassLists ==
    {<<>>} \cup {<<a>> : a \in PassTask(1)}
           \cup {<<b, a>> : b \in PassTask(2), a \in PassTask(1)}

PassSettings ==
    {[DefaultSettings EXCEPT !.notificationsEnabled = e, !.notifyBeforeMinutes = m] :
        e \in BOOLEAN, m \in {0, 10}}

\* a page in use: tasks were added and completed, no pass has fired yet
PassInit ==
    /\ tasks \in PassLists
    /\ settings \in PassSettings
    /\ storedTasks = saveTasks(tasks)
    /\ storedSettings = saveSettings(settings)
    /\ nextId = Len(tasks) + 1
    /\ firedSince = [id \in Ids |-> {}]
    /\ reopened = [id \in Ids |-> "no"]
    /\ rescheduled = [id \in Ids |-> FALSE]
    /\ hourCycle = "h23"
    /\ conv = Idle
    /\ run \in {[Quiet EXCEPT !.permission = p] : p \in {"unavailable", "default"}}
    /\ net = Offline

PassNext ==
    \/ \E clock \in ClockIfRead(settings.notificationsEnabled) : TimerPass(clock)
    \/ \E value \in LeadInputs, clock \in ClockIfRead(settings.notificationsEnabled) :
           LeadTimeChange(value, clock)
    \/ \E clock \in ClockIfRead(loadSettings(storedSettings).notificationsEnabled) :
           PageLoad(clock)
    \/ \E throws \in BOOLEAN : LoopBody(throws)
    \/ LoopEnd
    \/ DisplayTick
    \/ EnabledChange(~settings.notificationsEnabled)
    \/ RequestPermission
    \/ \E choice \in {"default", "denied", "granted", "rejected"} : PermissionSettled(choice)
    \/ Paint
    \/ HideToast

PassSpec == PassInit /\ [][PassNext]_vars

-----------------------------------------------------------------------------
(* The pass followed task by task and checkReminders as a function *)

\* the tasks a callback wrote notifiedFor for, in the order of the writes
RECURSIVE Written(_)
Written(log) ==
    IF log = <<>> THEN <<>>
    ELSE (IF Head(log).e = "write" THEN <<Head(log).id>> ELSE <<>>) \o Written(Tail(log))

\* a step in which checkReminders returns to its caller
PassReturns == run.pc = "loop" /\ run'.pc = "idle" /\ HasEvent(run'.log, "return")

\* the pass that returns has left what checkReminders, as a function of the list and
\* the clock reading it began with, says it leaves
PassAgrees ==
    [][PassReturns =>
          LET pass == checkReminders(run.on, settings, run.now)
          IN  /\ tasks' = pass.tasks
              /\ Written(run'.log) = [k \in DOMAIN pass.emitted |-> pass.emitted[k].id]
              /\ storedTasks' = IF pass.changed THEN saveTasks(pass.tasks)
                                ELSE storedTasks]_vars

-----------------------------------------------------------------------------
(* C21: a pass with notifications disabled *)

\* a step in which a callback calls checkReminders while the setting it reads,
\* state.settings.notificationsEnabled, is false
DisabledPass ==
    /\ run.pc = "idle"
    /\ HasEvent(run'.log, "enter")
    /\ ~settings'.notificationsEnabled

\* the list checkReminders is called on: init() has just loaded it, the timer and
\* the lead-time handler find it in state.tasks
CalledOn == IF Head(run'.log).e = "render" THEN loadTasks(storedTasks) ELSE tasks

\* C21: a call of checkReminders while notificationsEnabled is false, from the
\* timer, the lead-time handler or init(), on whatever list, returns at once: between its
\* entry and its return there is no Notification, no toast, no write of notifiedFor,
\* no saveTasks and no render; the list, localStorage[TASKS_KEY] and the toast
\* element are as they were.
C21_DisabledPassIsNoOp ==
    [][DisabledPass =>
          /\ run'.pc = "idle"
          /\ InPass(run'.log) = <<>>
          /\ tasks' = CalledOn
          /\ storedTasks' = storedTasks
          /\ run'.toast \in {run.toast, NoToast}]_vars

\* a pass has just returned with notifications disabled, on a list with an open task
\* whose trigger is behind every clock reading but the first two
C21_Witness ==
    /\ ~settings.notificationsEnabled
    /\ run.pc = "idle"
    /\ HasEvent(run.log, "enter")
    /\ \E i \in DOMAIN tasks :
           Fires(tasks[i], Base, settings.notifyBeforeMinutes * MinuteMs)

-----------------------------------------------------------------------------
(* C22: one save and one render at the end of a pass that wrote *)

\* what checkReminders has done since it was entered, up to its return if it has
\* returned
PassEvents(log) ==
    IF HasEvent(log, "return") THEN InPass(log)
    ELSE SubSeq(log, EnterAt(log) + 1, Len(log))

Count(log, e) == Cardinality({k \in DOMAIN log : log[k].e = e})

\* C22: while the loop of a pass is at work nothing has been saved or rendered;
\* when the pass has returned, if it wrote at least one notifiedFor then it called
\* saveTasks exactly once and render exactly once, as its last two steps, after the
\* last task was evaluated, and what is stored is the list with every write in it;
\* if it wrote none, it called neither.
C22_OneSaveOneRenderAfterLoop ==
    HasEvent(run.log, "enter") =>
        LET done == PassEvents(run.log)
            n == Len(done)
        IN  /\ run.pc = "loop" => (Count(done, "save") = 0 /\ Count(done, "render") = 0)
            /\ run.pc = "idle" =>
                   IF Written(done) # <<>>
                   THEN /\ Count(done, "save") = 1
                        /\ Count(done, "render") = 1
                        /\ done[n - 1].e = "save"
                        /\ done[n].e = "render"
                        /\ storedTasks = saveTasks(tasks)
                   ELSE Count(done, "save") = 0 /\ Count(done, "render") = 0

\* a pass has returned after it wrote notifiedFor for the first task of a list of
\* two and for the second
C22_Witness ==
    /\ run.pc = "idle"
    /\ HasEvent(run.log, "return")
    /\ Len(Written(run.log)) = 2
    /\ Count(run.log, "save") = 1

\* a pass has returned without a write, on a list that is not empty
C22_WitnessNoWrite ==
    /\ run.pc = "idle"
    /\ settings.notificationsEnabled
    /\ HasEvent(run.log, "return")
    /\ Written(run.log) = <<>>
    /\ tasks # <<>>

-----------------------------------------------------------------------------
(* C23: the channel of a reminder *)

\* a pass has returned and the browser has painted the page since
PassPainted == run.pc = "idle" /\ run.painted /\ HasEvent(run.log, "return")

SystemShown(log, id) == \E k \in DOMAIN log : log[k] = Event("system", id)

\* the reminders the user has been shown for the firing of a task: the system
\* notification constructed for it, and the painted toast if it holds its reminder
Presented(id) ==
    (IF SystemShown(run.log, id) THEN 1 ELSE 0)
        + (IF run.toast = [kind |-> "reminder", id |-> id] THEN 1 ELSE 0)

FiredIn(log) == {log[k].id : k \in {j \in DOMAIN log : log[j].e = "write"}}

\* C23, as claimed: for every firing of a pass, whatever Notification.permission
\* reads and whether or not the constructor throws, exactly one reminder is presented
\* to the user: the system notification if one was constructed, the toast with the
\* reminder otherwise.
C23_OneReminderPerFiring ==
    PassPainted => \A id \in FiredIn(run.log) : Presented(id) = 1

\* what does hold, of the choice of the channel: each firing takes exactly one
\* channel, the system notification only where the permission reads "granted",
\* and the toast with the reminder in every other case; both come before the write
C23_OneChannelPerFiring ==
    HasEvent(run.log, "enter") =>
        \A k \in DOMAIN run.log :
            run.log[k].e = "write" =>
                LET id == run.log[k].id
                    before == SubSeq(run.log, 1, k - 1)
                IN  /\ Count(SelectSeq(before, LAMBDA ev : ev.id = id), "system")
                         + Count(SelectSeq(before, LAMBDA ev : ev.id = id), "reminder") = 1
                    /\ SystemShown(before, id) => run.permission = "granted"
                    /\ SystemShown(before, id) <=> before[k - 1] = Event("notice", id)

\* and of what is presented: the last firing of a pass is presented exactly once
C23_LastFiringPresented ==
    (PassPainted /\ Written(run.log) # <<>>) =>
        Presented(Written(run.log)[Len(Written(run.log))]) = 1

-----------------------------------------------------------------------------
(* C24: the dispatch never ends the pass *)

\* the toast element shows a message about the task: the reminder, or the note that a
\* system notification was sent
ToastAbout(id) ==
    run.toast \in {[kind |-> "reminder", id |-> id], [kind |-> "notice", id |-> id]}

\* C24: whatever the attempt at a system notification comes to (no Notification
\* in window, permission not granted, the constructor throws, or a notification
\* shown), emitReminder returns: no pass is ended by an exception, a pass leaves the
\* stack by its return only, every toast of emitReminder is followed at once by the
\* write of notifiedFor for the same task, at that point the toast element shows the
\* message about that task, and the loop goes on: every task before the loop's
\* position has been evaluated, so that none of them is due and un-notified.
C24_DispatchNeverRaises ==
    HasEvent(run.log, "enter") =>
        LET n == Len(run.log)
        IN  /\ ~HasEvent(run.log, "raised")
            /\ run.pc = "idle" <=> HasEvent(run.log, "return")
            /\ \A k \in DOMAIN run.log :
                   run.log[k].e \in {"reminder", "notice"} =>
                       k < n /\ run.log[k + 1] = Event("write", run.log[k].id)
            /\ run.log[n].e = "write" =>
                   /\ ToastAbout(run.log[n].id)
                   /\ run.pc = "loop"
            /\ run.pc = "loop" =>
                   \A j \in 1 .. (run.i - 1) :
                       ~Fires(tasks[j], run.now, settings.notifyBeforeMinutes * MinuteMs)

\* with the permission granted, the constructor threw for the first task of a pass,
\* the reminder went to the toast, and the pass has gone on to fire the second task
C24_Witness ==
    /\ run.permission = "granted"
    /\ Len(Written(run.log)) = 2
    /\ \E k \in DOMAIN run.log :
           /\ run.log[k] = Event("reminder", Written(run.log)[1])
           /\ k < 3

-----------------------------------------------------------------------------
(* C25: the display tick *)

\* C25: in every state the page can be in - between any two callbacks, after
\* whatever user operations and passes - a display tick leaves state.tasks with every
\* field of every task, state.settings, localStorage[TASKS_KEY] and
\* localStorage[SETTINGS_KEY] exactly as it found them.
C25_UpdateClockPureRead ==
    updateClock(tasks, settings, storedTasks, storedSettings)
        = [tasks |-> tasks, settings |-> settings, storedTasks |-> storedTasks,
           storedSettings |-> storedSettings]

\* a tick can run after the zone was changed and a pass has notified a task, while
\* what is stored of the tasks is behind a reload and no longer equal to a save of
\* the list
C25_Witness ==
    /\ settings.timezone = "Europe/Samara"
    /\ storedSettings = saveSettings(settings)
    /\ \E i \in DOMAIN tasks : Truthy(tasks[i].notifiedFor)
    /\ storedTasks # saveTasks(tasks)
    /\ ENABLED UpdateClock

-----------------------------------------------------------------------------
(* C26: a pass and the other callbacks *)

\* the log of the callback on the stack has grown, nothing of it was dropped
LogGrows == SubSeq(run'.log, 1, Len(run.log)) = run.log

\* the next step is the next turn of the same loop
NextTurn ==
    /\ run'.pc = "loop"
    /\ run'.i = run.i + 1
    /\ run'.source = run.source
    /\ run'.now = run.now
    /\ run'.on = run.on
    /\ LogGrows
    /\ UNCHANGED <<settings, storedTasks, storedSettings>>

\* the next step is the end of the same pass: save and render if it wrote, return
LastStep ==
    /\ run'.pc = "idle"
    /\ run.i > Len(tasks)
    /\ LogGrows
    /\ HasEvent(run'.log, "return")
    /\ UNCHANGED <<tasks, settings, storedSettings>>

\* C26: from the first statement of a checkReminders pass to its return, every step
\* taken is the next step of that pass: no second pass (from the timer, the
\* lead-time handler or init), no display tick, no user operation, no resumed
\* handler and no repaint begins while the pass is on the stack.
C26_PassIsAtomic == [][run.pc = "loop" => (NextTurn \/ LastStep)]_vars

\* no callback has ever begun while another was on the stack
C26_NeverOverlapped == ~run.overlapped

\* a pass is between two tasks, after a firing, while the handler of the permission
\* button is suspended at its await and waits to be resumed
C26_Witness ==
    /\ run.pc = "loop"
    /\ run.i = 2
    /\ run.changed
    /\ run.awaiting
    /\ Len(tasks) = 2

-----------------------------------------------------------------------------
(* C27: a repeated pass *)

\* a pass at the clock reading, and a second pass at the same reading on what the
\* first has left, with the same settings
FirstPass(clock) == checkReminders(tasks, settings, clock)
RepeatedPass(clock) == checkReminders(FirstPass(clock).tasks, settings, clock)

\* C27: between two callbacks, at every clock reading: a pass followed at once by a
\* second pass at the same reading - the tasks and the settings touched by nothing
\* but the first pass - has the second call emitReminder for no task, save nothing
\* and leave every task as the first left it; a task the first pass decided not to
\* fire gets the same decision from the second, and a task it fired is not fired
\* again.
C27_RepeatedPassFiresNothing ==
    run.pc = "idle" =>
        \A clock \in ClockValues :
            /\ RepeatedPass(clock).emitted = <<>>
            /\ ~RepeatedPass(clock).changed
            /\ RepeatedPass(clock).tasks = FirstPass(clock).tasks
            /\ settings.notificationsEnabled =>
                   \A i \in DOMAIN tasks :
                       ~Fires(FirstPass(clock).tasks[i], clock,
                              settings.notifyBeforeMinutes * MinuteMs)

\* a pass has just fired for a task, with a lead of ten minutes, so that the trigger
\* it wrote is not the task's reminderAt, next to a task that was not due
C27_Witness ==
    /\ run.pc = "idle"
    /\ settings.notificationsEnabled
    /\ settings.notifyBeforeMinutes = 10
    /\ Len(Written(run.log)) = 1
    /\ Len(tasks) = 2
    /\ \E i \in DOMAIN tasks :
           /\ tasks[i].id = Written(run.log)[1]
           /\ tasks[i].notifiedFor = Num(Base - 10 * MinuteMs)

-----------------------------------------------------------------------------
(* The text of a task: long and blank texts typed into the task field and the text  *)
(* prompt, and stored records that this client did not write                        *)

Repeat(c, n) == [k \in 1 .. n |-> c]

\* one character more than MAX_TEXT_LENGTH
LongText == Repeat("a", MAX_TEXT_LENGTH + 1)

\* MAX_TEXT_LENGTH - 1 characters, a space, and more: cut after the space
LongTextWithSpace == Repeat("a", MAX_TEXT_LENGTH - 1) \o <<" ", "b", "c">>

\* what is typed: nothing, blanks, a short text between blanks, exactly
\* MAX_TEXT_LENGTH characters, and the two long texts
TypedTexts ==
    {<<>>, <<" ", " ">>, <<" ", "a", " ">>, Repeat("b", MAX_TEXT_LENGTH), LongText,
     <<" ">> \o LongTextWithSpace}

\* the text field of a stored record: missing or not a string, empty, blank, short,
\* long
StoredTexts == {NotAString, <<>>, <<" ">>, <<"a", " ">>, LongText, LongTextWithSpace}

\* a stored record as the first client of app.js writes it under the same key
\* (id, text, done, createdAt; no reminder fields), or as anything else may
StoredRecord(id, text) ==
    [id |-> id, text |-> text, done |-> FALSE, reminderAt |-> NaN, notifiedFor |-> NaN]

StoredLists ==
    {<<>>} \cup {<<StoredRecord(1, a)>> : a \in StoredTexts}
           \cup {<<StoredRecord(2, b), StoredRecord(1, a)>> : a, b \in StoredTexts}

\* init() on a browser with nothing stored, or on what is stored under TASKS_KEY
TextInit ==
    /\ storedTasks \in {[present |-> FALSE, items |-> <<>>]}
                           \cup {[present |-> TRUE, items |-> l] : l \in StoredLists}
    /\ tasks = loadTasks(storedTasks)
    /\ settings = DefaultSettings
    /\ storedSettings = [kind |-> "missing", value |-> StoredJson(DefaultSettings)]
    /\ nextId = Len(storedTasks.items) + 1
    /\ firedSince = [id \in Ids |-> {}]
    /\ reopened = [id \in Ids |-> "no"]
    /\ rescheduled = [id \in Ids |-> FALSE]
    /\ hourCycle = "h23"
    /\ conv = Idle
    /\ run = Quiet
    /\ net = Offline

TextNext ==
    \/ \E textRaw \in TypedTexts : AddTask(textRaw, EmptyInput, AnyClock)
    \/ \E i \in DOMAIN tasks, s \in TypedTexts :
           EditTask(tasks[i].id, TextAnswer(s), Cancel, AnyClock)
    \/ \E i \in DOMAIN tasks : ToggleTask(tasks[i].id, ~tasks[i].done)
    \/ \E i \in DOMAIN tasks : DeleteTask(tasks[i].id)
    \/ Reload(AnyClock)

TextSpec == TextInit /\ [][TextNext]_vars

-----------------------------------------------------------------------------
(* C28: the text of every task *)

Blank(text) == text = NotAString \/ Trim(text) = <<>>

\* the stored records that have a text
RECURSIVE WithText(_)
WithText(items) ==
    IF items = <<>> THEN <<>>
    ELSE (IF Blank(Head(items).text) THEN <<>> ELSE <<Head(items)>>) \o WithText(Tail(items))

\* C28: in every reachable state every task of state.tasks has a text that is not
\* empty and has at most 300 characters; addTask and editTask leave the list alone
\* for a blank text and store the first 300 characters of the trimmed text
\* otherwise; loadTasks gives one task for each stored record with a text that is
\* not blank, with the first 300 characters of its trimmed text, and none for the others.
C28_TextNonEmptyAtMost300 ==
    /\ \A i \in DOMAIN tasks :
           tasks[i].text # <<>> /\ Len(tasks[i].text) <= 300
    /\ \A s \in TypedTexts :
           LET added == addTask(tasks, settings, nextId, s, EmptyInput, AnyClock)
           IN  IF Blank(s) THEN added.outcome = "rejected" /\ added.tasks = tasks
               ELSE added.tasks[1].text = Slice(Trim(s), 300)
    /\ \A i \in DOMAIN tasks, s \in TypedTexts :
           LET edited == editTask(tasks, settings, tasks[i].id, TextAnswer(s), Cancel,
                                  AnyClock)
           IN  IF Blank(s) THEN edited.outcome = "rejected" /\ edited.tasks = tasks
               ELSE edited.tasks[i].text = Slice(Trim(s), 300)
    /\ LET kept == WithText(storedTasks.items)
           loaded == loadTasks(storedTasks)
       IN  /\ Len(loaded) = Len(kept)
           /\ \A k \in DOMAIN kept :
                  /\ loaded[k].id = kept[k].id
                  /\ loaded[k].text = Slice(Trim(kept[k].text), 300)

\* a task holds the first 300 characters of a text of 301 next to a task whose
\* text was cut after a space, both stored by a handler of this client
C28_Witness ==
    /\ Len(tasks) = 2
    /\ tasks[1].text = Repeat("a", 300)
    /\ tasks[2].text = Repeat("a", 299) \o <<" ">>
    /\ storedTasks = saveTasks(tasks)

\* the page was loaded on two stored records of which the one without a text was
\* dropped and the long one cut
C28_WitnessLoaded ==
    /\ Len(storedTasks.items) = 2
    /\ storedTasks.items[1].text = NotAString
    /\ Len(storedTasks.items[2].text) > 300
    /\ Len(tasks) = 1
    /\ Len(tasks[1].text) = 300

-----------------------------------------------------------------------------
(* C29: an edit that leaves the reminder as it is *)

\* an accepted edit after which reminderAt is what it was: the reminder prompt was
\* cancelled, or answered with the instant the task already had
ReminderUnchanged(s) ==
    /\ s.op = "editTask"
    /\ s.outcome = "ok"
    /\ TaskById(s.post, s.id).reminderAt = TaskById(s.pre, s.id).reminderAt

C29Step(s) ==
    ReminderUnchanged(s) =>
        TaskById(s.post, s.id).notifiedFor = TaskById(s.pre, s.id).notifiedFor

\* C29, as claimed: an accepted editTask after which the task's reminderAt is what
\* it was leaves the task's notifiedFor as it was.
C29_UnchangedReminderKeepsNotifiedFor == EditSteps(C29Step)

C29PassStep(s) ==
    (ReminderUnchanged(s) /\ NotifiedNow(TaskById(s.pre, s.id), settings)) =>
        \A clock \in ClockValues :
            \A k \in DOMAIN checkReminders(s.post, settings, clock).emitted :
                checkReminders(s.post, settings, clock).emitted[k].id # s.id

\* and its consequence, as claimed: after such an edit of a task that is notified
\* for its trigger, no pass calls emitReminder for the task
C29_NoSecondNotification == EditSteps(C29PassStep)

\* what does hold: every accepted edit leaves notifiedFor null
C29EditStep(s) ==
    (s.op = "editTask" /\ s.outcome = "ok") =>
        TaskById(s.post, s.id).notifiedFor = Null

C29_EditAlwaysResets == EditSteps(C29EditStep)

-----------------------------------------------------------------------------
(* C30: saving and loading *)

\* C30, as claimed: loadTasks applied to what saveTasks writes of the list in memory
\* gives the list back, every task with the id, text, done, reminderAt and
\* notifiedFor it had, a null reminderAt or notifiedFor included.
C30_SaveLoadLossless == loadTasks(saveTasks(tasks)) = tasks

\* what does hold: the same tasks come back in the same order with their id and
\* done, and with each reminderAt and notifiedFor that is a number; a null comes back
\* as 0, and a text that was cut after a space comes back without the space
C30_LosslessButNull ==
    LET loaded == loadTasks(saveTasks(tasks))
    IN  /\ Len(loaded) = Len(tasks)
        /\ \A i \in DOMAIN tasks :
               /\ loaded[i].id = tasks[i].id
               /\ loaded[i].text = Trim(tasks[i].text)
               /\ loaded[i].done = tasks[i].done
               /\ loaded[i].reminderAt = JsNumber(tasks[i].reminderAt)
               /\ loaded[i].notifiedFor = JsNumber(tasks[i].notifiedFor)

\* the text of every task comes back as it was
C30_TextKept ==
    \A i \in DOMAIN tasks :
        /\ i \in DOMAIN loadTasks(saveTasks(tasks))
        /\ loadTasks(saveTasks(tasks))[i].text = tasks[i].text

-----------------------------------------------------------------------------
(* C31: what is in memory and what is stored *)

\* localStorage[TASKS_KEY] holds what saveTasks writes of the list, or holds nothing
\* while there is no task to write
Persisted(stored, ts) == stored = saveTasks(ts) \/ (~stored.present /\ ts = <<>>)

\* the two removals as step records
RemovalSteps ==
    {TaskStep("deleteTask", tasks[i].id, 0, Null, deleteTask(tasks, tasks[i].id)) :
         i \in DOMAIN tasks}
    \cup {TaskStep("clearDone", 0, 0, Null, clearDone(tasks))}

\* an operation of the page after it was loaded: init() is the load itself
IsOperation(s) == s.op # "init"

C31Step(s) == IsOperation(s) => Persisted(s.stored, s.post)

\* C31, as claimed: after every addTask, toggleTask, deleteTask, editTask, clearDone
\* and checkReminders pass, accepted or rejected, the list stored under the tasks key
\* equals state.tasks.
C31_PersistedEqualsMemory ==
    AllSteps(C31Step) /\ \A s \in RemovalSteps : C31Step(s)

C31ChangeStep(s) ==
    IsOperation(s) =>
        /\ s.post # s.pre => s.stored = saveTasks(s.post)
        /\ Persisted(storedTasks, tasks) => Persisted(s.stored, s.post)

\* what does hold: an operation that changes state.tasks stores the changed list, and
\* an operation that begins with the stored list equal to state.tasks ends so
C31_ChangesArePersisted ==
    AllSteps(C31ChangeStep) /\ \A s \in RemovalSteps : C31ChangeStep(s)

\* the page was loaded from a list that saveTasks wrote, and state.tasks is not that list
C31_LoadedDiffers ==
    /\ storedTasks.present
    /\ tasks # <<>>
    /\ tasks = loadTasks(storedTasks)
    /\ ~Persisted(storedTasks, tasks)

-----------------------------------------------------------------------------
(* C32: a reminder that was removed or never given *)

\* the callback gives the task a reminder: an accepted editTask of it whose reminder
\* answer was neither cancelled nor empty
SetsReminder(s, taskId) ==
    s.op = "editTask" /\ s.id = taskId /\ s.outcome = "ok" /\ s.parsed # Null

\* the list a callback starts from: init() starts from what is stored
StartsFrom(s) == IF s.op = "init" THEN loadJsonTasks(storedTasks) ELSE s.pre

\* a task without a reminder is in no emitReminder call and is left without one,
\* unless the callback is the edit that gives it one
C32Step(s) ==
    \A i \in DOMAIN StartsFrom(s) :
        LET task == StartsFrom(s)[i]
        IN  (~IsSet(task) /\ ~SetsReminder(s, task.id)) =>
                /\ Calls(s, task.id) = {}
                /\ HasTask(s.post, task.id) => ~IsSet(TaskById(s.post, task.id))

\* editTask answered with an empty reminder, and addTask with an empty reminder field
C32Removes ==
    /\ \A i \in DOMAIN tasks, nextText \in TextAnswers :
           LET result == editTask(tasks, settings, tasks[i].id, nextText,
                                  ReminderAnswer(EmptyInput), AnyClock)
           IN  result.outcome = "ok" =>
                   /\ result.tasks[i].reminderAt = Null
                   /\ result.tasks[i].notifiedFor = Null
    /\ \A textRaw \in TextInputs :
           LET result == addTask(tasks, settings, nextId, textRaw, EmptyInput, AnyClock)
           IN  result.outcome = "ok" =>
                   /\ result.tasks[1].reminderAt = Null
                   /\ result.tasks[1].notifiedFor = Null

\* a task that is without a reminder in memory is without one in what is stored
C32Stored ==
    \A i \in DOMAIN tasks :
        ~IsSet(tasks[i]) =>
            /\ HasTask(loadJsonTasks(storedTasks), tasks[i].id)
            /\ ~IsSet(TaskById(loadJsonTasks(storedTasks), tasks[i].id))

\* C32: editTask answered with an empty reminder leaves the task with reminderAt and
\* notifiedFor null, and so does addTask with an empty reminder field; a task
\* without a reminder is in no emitReminder call of any later pass, the one of a
\* reload included, until an edit gives it a reminder.
C32_NoReminderNeverFires ==
    /\ C32Removes
    /\ C32Stored
    /\ AllSteps(C32Step)
    /\ \A s \in RemovalSteps : C32Step(s)

\* notifications are on; one open task is without a reminder, and another has been
\* notified and can have its reminder removed by an edit
C32_Witness ==
    /\ settings.notificationsEnabled
    /\ \E i, j \in DOMAIN tasks :
           /\ tasks[i].reminderAt = Null /\ tasks[i].notifiedFor = Null /\ ~tasks[i].done
           /\ IsSet(tasks[j]) /\ Truthy(tasks[j].notifiedFor)
           /\ editTask(tasks, settings, tasks[j].id, TextAnswer(<<"a">>),
                       ReminderAnswer(EmptyInput), AnyClock).outcome = "ok"

-----------------------------------------------------------------------------
(* Loading, on whatever the two keys hold: the text under a key is kept as what    *)
(* getItem and JSON.parse make of it, and the parsed value as a JSON value.        *)

\* JSON values; `undefined` is what reading a missing property gives
JNull == [t |-> "null"]
Undefined == [t |-> "undefined"]
JBool(b) == [t |-> "bool", b |-> b]
JNum(n) == [t |-> "num", n |-> n]
JStr(s) == [t |-> "str", s |-> s]
JArr(items) == [t |-> "arr", items |-> items]
JObj(fields) == [t |-> "obj", fields |-> fields]

\* "Cannot read properties of null", as a value
TypeError == [t |-> "TypeError"]

\* `value.name`
Member(value, name) ==
    IF value.t \in {"null", "undefined"} THEN TypeError
    ELSE IF value.t = "obj" /\ name \in DOMAIN value.fields THEN value.fields[name]
    ELSE Undefined

\* `value?.name`
OptionalMember(value, name) ==
    IF value.t \in {"null", "undefined"} THEN Undefined ELSE Member(value, name)

\* Boolean(value)
Boolean(value) ==
    CASE value.t \in {"null", "undefined"} -> FALSE
      [] value.t = "bool" -> value.b
      [] value.t = "num" -> value.n # 0
      [] value.t = "str" -> value.s # <<>>
      [] OTHER -> TRUE

\* String(value), for the values used here: an array is its elements joined by
\* commas, an object is "[object Object]"
StringOf(value) ==
    CASE value.t = "null" -> <<"n", "u", "l", "l">>
      [] value.t = "undefined" -> UndefinedText
      [] value.t = "bool" -> IF value.b THEN <<"t", "r", "u", "e">>
                             ELSE <<"f", "a", "l", "s", "e">>
      [] value.t = "num" -> IF value.n < 0 THEN <<"-">> \o NumberString(0 - value.n)
                            ELSE NumberString(value.n)
      [] value.t = "str" -> value.s
      [] value.t = "arr" -> IF value.items = <<>> THEN <<>> ELSE <<"?", ",", "?">>
      [] OTHER -> <<"[", "o", "b", "j", "e", "c", "t", " ", "O", "b", "j", "e", "c", "t", "]">>

\* Number(value), kept as normalizeTask's argument: null stays null (NormNumber makes
\* it 0); a text is a number when it is blank or all digits
NumberArg(value) ==
    CASE value.t = "null" -> Null
      [] value.t = "bool" -> Num(IF value.b THEN 1 ELSE 0)
      [] value.t = "num" -> Num(value.n)
      [] value.t \in {"str", "arr"} ->
             LET s == Trim(StringOf(value))
             IN  IF s = <<>> THEN Num(0)
                 ELSE IF LeadingDigits(s) = s THEN Num(DigitsValue(s))
                 ELSE NaN
      [] OTHER -> NaN

\* what a key holds: nothing (getItem returns null), the empty text, a text that
\* JSON.parse rejects, a storage that getItem is denied access to, or a JSON text
Missing == [kind |-> "missing"]
EmptyText == [kind |-> "empty"]
Malformed == [kind |-> "malformed"]
Denied == [kind |-> "denied"]
JsonText(value) == [kind |-> "value", value |-> value]

\* loadJson: the exceptions of getItem and JSON.parse are caught, `!raw` and
\* `parsed ?? fallback` give the fallback
loadJson(content, fallback) ==
    IF content.kind \in {"denied", "malformed"} THEN fallback
    ELSE IF content.kind \in {"missing", "empty"} THEN fallback
    ELSE IF content.value.t = "null" THEN fallback
    ELSE content.value

\* crypto.randomUUID() for the element at position k: an id no stored task has
FreshId(k) == MaxIds + k

\* the fields normalizeTask reads of an element whose text is a string
RawRecord(raw, k) ==
    LET id == Member(raw, "id")
    IN  [id |-> IF id.t = "str" /\ id.s # <<>> THEN DigitsValue(id.s) ELSE FreshId(k),
         text |-> Member(raw, "text").s,
         done |-> Boolean(Member(raw, "done")),
         reminderAt |-> NumberArg(Member(raw, "reminderAt")),
         notifiedFor |-> NumberArg(Member(raw, "notifiedFor"))]

\* a variant that reads the text with `raw.text`
ElementText_Plain(raw) == Member(raw, "text")

\* `raw?.text`
ElementText(raw) == OptionalMember(raw, "text")

\* normalizeTask on a parsed element: whether it raised, and the task it returned
\* (<<>> for null)
NormalizeElement(raw, k) ==
    LET text == ElementText(raw)
    IN  IF text.t = "TypeError" THEN [raised |-> TRUE, task |-> <<>>]
        ELSE IF text.t # "str" THEN [raised |-> FALSE, task |-> <<>>]
        ELSE [raised |-> FALSE, task |-> normalizeTask(RawRecord(raw, k))]

\* rawTasks.map(normalizeTask).filter(Boolean), from element k on
RECURSIVE MapNormalize(_, _)
MapNormalize(items, k) ==
    IF k > Len(items) THEN [raised |-> FALSE, tasks |-> <<>>]
    ELSE LET first == NormalizeElement(items[k], k)
             rest == MapNormalize(items, k + 1)
         IN  IF first.raised THEN [raised |-> TRUE, tasks |-> <<>>]
             ELSE [raised |-> rest.raised, tasks |-> first.task \o rest.tasks]

\* loadTasks on what TASKS_KEY holds
LoadTasksOf(content) ==
    LET rawTasks == loadJson(content, JArr(<<>>))
    IN  IF rawTasks.t # "arr" THEN [raised |-> FALSE, tasks |-> <<>>]
        ELSE MapNormalize(rawTasks.items, 1)

\* state.settings as an object: loadJson's fallback in loadSettings
SettingsObject(st) ==
    JObj([timezone |-> JStr(st.timezone),
          notificationsEnabled |-> JBool(st.notificationsEnabled),
          notifyBeforeMinutes |-> JNum(st.notifyBeforeMinutes)])

\* loadSettings on what SETTINGS_KEY holds; st is state.settings of the fresh page
LoadSettingsOf(content, st) ==
    LET raw == loadJson(content, SettingsObject(st))
        zone == OptionalMember(raw, "timezone")
        lead == OptionalMember(raw, "notifyBeforeMinutes")
        enabled == OptionalMember(raw, "notificationsEnabled")
    IN  [raised |-> "TypeError" \in {zone.t, lead.t, enabled.t},
         settings |->
             [timezone |-> IF zone.t = "str" /\ timezoneMapHas(zone.s) THEN zone.s
                           ELSE "Europe/Moscow",
              notificationsEnabled |-> Boolean(enabled),
              notifyBeforeMinutes |->
                  clampInt(parseInt(StringOf(lead)), LeadMin, LeadMax, LeadFallback)]]

\* JSON.stringify(state.tasks), parsed
TaskObject(task) ==
    LET number(x) == IF x.t = "num" THEN JNum(x.v) ELSE JNull
    IN  JObj([id |-> JStr(NumberString(task.id)), text |-> JStr(task.text),
              done |-> JBool(task.done), reminderAt |-> number(task.reminderAt),
              notifiedFor |-> number(task.notifiedFor)])

StoredList(ts) == JsonText(JArr([i \in DOMAIN ts |-> TaskObject(ts[i])]))

\* elements of a stored array: a task as this page saves it, due at Base and not yet
\* notified; a task without a reminder, with the nulls saveTasks writes; a record of
\* the first client (no reminder fields); a record with no id and numbers given as
\* text; records whose text is missing, a number or blank
SavedDue ==
    JObj([id |-> JStr(<<"1">>), text |-> JStr(<<"a">>), done |-> JBool(FALSE),
          reminderAt |-> JNum(Base), notifiedFor |-> JNull])
SavedPlain ==
    JObj([id |-> JStr(<<"2">>), text |-> JStr(<<"b">>), done |-> JBool(TRUE),
          reminderAt |-> JNull, notifiedFor |-> JNull])
FirstClientRecord ==
    JObj([id |-> JStr(<<"1">>), text |-> JStr(<<" ", "a">>), done |-> JBool(FALSE)])
LooseRecord ==
    JObj([text |-> JStr(<<"a">>), done |-> JStr(<<"n", "o">>),
          reminderAt |-> JStr(<<"7">>), notifiedFor |-> JArr(<<>>)])
NoTextRecord == JObj([done |-> JBool(FALSE)])
NumberTextRecord == JObj([text |-> JNum(5), id |-> JStr(<<"1">>)])
BlankTextRecord == JObj([text |-> JStr(<<" ">>), id |-> JStr(<<"1">>)])

\* what TASKS_KEY may hold when the page is opened
TaskContents ==
    << Missing, EmptyText, Malformed, Denied,
       JsonText(JNull), JsonText(JNum(5)), JsonText(JStr(<<"a">>)),
       JsonText(JBool(TRUE)), JsonText(SavedDue),
       JsonText(JArr(<<>>)),
       JsonText(JArr(<<JNull>>)),
       JsonText(JArr(<<JNum(5), JStr(<<"a">>)>>)),
       JsonText(JArr(<<JArr(<<>>), JBool(FALSE)>>)),
       JsonText(JArr(<<NoTextRecord, NumberTextRecord, BlankTextRecord>>)),
       JsonText(JArr(<<JNull, SavedDue, JNum(7)>>)),
       JsonText(JArr(<<SavedPlain, SavedDue>>)),
       JsonText(JArr(<<FirstClientRecord, JNull>>)),
       JsonText(JArr(<<JStr(<<"a">>), LooseRecord>>)) >>

\* what SETTINGS_KEY may hold when the page is opened
SettingsContents ==
    << Missing, EmptyText, Malformed, Denied,
       JsonText(JNull), JsonText(JNum(5)), JsonText(JStr("Europe/Samara")),
       JsonText(JBool(TRUE)), JsonText(JArr(<<JNum(1)>>)),
       JsonText(JObj([timezone |-> JNull, notifyBeforeMinutes |-> JBool(TRUE)])),
       JsonText(JObj([timezone |-> JStr("Mars/Phobos"),
                      notificationsEnabled |-> JNull,
                      notifyBeforeMinutes |-> JStr(<<"a", "b", "c">>)])),
       JsonText(SettingsObject([timezone |-> "Europe/Samara",
                                notificationsEnabled |-> TRUE,
                                notifyBeforeMinutes |-> 10])) >>

\* the module has been evaluated and init() has not run yet: state.tasks is [] and
\* state.settings the defaults, on whatever the two keys hold
LoadInit ==
    /\ \E k \in DOMAIN TaskContents : storedTasks = TaskContents[k]
    /\ \E k \in DOMAIN SettingsContents : storedSettings = SettingsContents[k]
    /\ tasks = <<>>
    /\ settings = DefaultSettings
    /\ nextId = 1
    /\ firedSince = [id \in Ids |-> {}]
    /\ reopened = [id \in Ids |-> "no"]
    /\ rescheduled = [id \in Ids |-> FALSE]
    /\ hourCycle = "h23"
    /\ conv = Idle
    /\ run = Quiet
    /\ net = Offline

\* init() on a fresh page: loadSettings, loadTasks and the first checkReminders pass;
\* an exception ends it where it is raised
OpenPage(clock) ==
    LET ls == LoadSettingsOf(storedSettings, DefaultSettings)
        lt == LoadTasksOf(storedTasks)
        pass == checkReminders(lt.tasks, ls.settings, clock)
    IN  /\ settings' = IF ls.raised THEN DefaultSettings ELSE ls.settings
        /\ tasks' = IF ls.raised \/ lt.raised THEN <<>> ELSE pass.tasks
        /\ storedTasks' = IF ~ls.raised /\ ~lt.raised /\ pass.changed
                          THEN StoredList(pass.tasks) ELSE storedTasks
        /\ UNCHANGED <<storedSettings, nextId, firedSince, reopened, rescheduled,
                       hourCycle, conv, run, net>>

\* something else writes one of the keys: the first client of app.js keeps its list
\* under the same key, and the storage is the user's to edit
TasksKeyWritten(k) ==
    /\ storedTasks' = TaskContents[k]
    /\ UNCHANGED <<tasks, settings, storedSettings, nextId, firedSince, reopened,
                   rescheduled, hourCycle, conv, run, net>>

SettingsKeyWritten(k) ==
    /\ storedSettings' = SettingsContents[k]
    /\ UNCHANGED <<tasks, settings, storedTasks, nextId, firedSince, reopened,
                   rescheduled, hourCycle, conv, run, net>>

LoadNext ==
    \/ \E clock \in ClockValues : OpenPage(clock)
    \/ \E k \in DOMAIN TaskContents : TasksKeyWritten(k)
    \/ \E k \in DOMAIN SettingsContents : SettingsKeyWritten(k)

LoadSpec == LoadInit /\ [][LoadNext]_vars

-----------------------------------------------------------------------------
(* C33: loading never fails *)

\* an element normalizeTask makes a task of: an object whose text is a string with
\* something in it
UsableElement(raw) ==
    /\ raw.t = "obj"
    /\ "text" \in DOMAIN raw.fields
    /\ raw.fields.text.t = "str"
    /\ Trim(raw.fields.text.s) # <<>>

UsableList(content) == content.kind = "value" /\ content.value.t = "arr"

UsableObject(content) == content.kind = "value" /\ content.value.t = "obj"

\* a settings field that is missing or null
NoValue(content, name) ==
    ~UsableObject(content) \/ OptionalMember(content.value, name).t \in {"undefined", "null"}

\* C33: for everything the two keys can hold, loadTasks and loadSettings return
\* without raising; loadTasks gives the empty list for an absent, empty, unreadable
\* or unparsable text and for a value that is no array, and one task for each array
\* element that is an object with a text, dropping null and the other elements;
\* loadSettings gives Europe/Moscow, 0 and false for each field it cannot read.
C33_LoadingNeverFails ==
    LET lt == LoadTasksOf(storedTasks)
        ls == LoadSettingsOf(storedSettings, DefaultSettings)
    IN  /\ ~lt.raised
        /\ ~ls.raised
        /\ ~UsableList(storedTasks) => lt.tasks = <<>>
        /\ UsableList(storedTasks) =>
               Len(lt.tasks) = Cardinality({k \in DOMAIN storedTasks.value.items :
                                               UsableElement(storedTasks.value.items[k])})
        /\ ~UsableObject(storedSettings) => ls.settings = DefaultSettings
        /\ NoValue(storedSettings, "timezone") => ls.settings.timezone = "Europe/Moscow"
        /\ NoValue(storedSettings, "notifyBeforeMinutes") =>
               ls.settings.notifyBeforeMinutes = 0
        /\ NoValue(storedSettings, "notificationsEnabled") =>
               ~ls.settings.notificationsEnabled
        /\ ls.settings.timezone \in RU_TIMEZONES
        /\ ls.settings.notifyBeforeMinutes \in LeadMin .. LeadMax

\* the page was opened on an array that holds null, a task and a number, and on
\* settings that are no object: the one task is in state.tasks, with the defaults
C33_Witness ==
    /\ UsableList(storedTasks)
    /\ \E k \in DOMAIN storedTasks.value.items : storedTasks.value.items[k].t = "null"
    /\ \E k \in DOMAIN storedTasks.value.items : storedTasks.value.items[k].t = "num"
    /\ ~UsableObject(storedSettings)
    /\ Len(tasks) = 1
    /\ tasks = LoadTasksOf(storedTasks).tasks
    /\ settings = DefaultSettings

\* the two readings of loadTasks agree on what saveTasks writes: the one on the
\* parsed JSON value and the one on the stored records
LoadAgrees == LoadTasksOf(StoredList(tasks)).tasks = loadTasks(saveTasks(tasks))

-----------------------------------------------------------------------------
(* The client of the backend API (BACKEND_MODE): a task handler awaits its request *)
(* and then loadBackendData(), a settings handler assigns state.settings and       *)
(* awaits its PUT. The backend handles each request at some moment between its     *)
(* being sent and its response arriving; a request can fail at any moment.         *)

\* handlers awaiting at once, handlers started in one behaviour, rows the backend holds
MaxCalls == 2
MaxStarted == 3
MaxRows == 2

\* a task as /api/tasks returns it
Row(id, text, is_done) ==
    [id |-> id, text |-> text, is_done |-> is_done, reminder_at_ms |-> Null]

\* normalizeTask of the backend client: `raw.reminder_at_ms ?? raw.reminderAt` is
\* undefined for a null reminder_at_ms, and Number(undefined) is NaN
normalizeBackendTask(raw) ==
    LET text == Slice(Trim(raw.text), MAX_TEXT_LENGTH)
    IN  IF text = <<>> THEN <<>>
        ELSE << [id |-> raw.id, text |-> text, done |-> raw.is_done,
                 reminderAt |-> NormNumber(IF raw.reminder_at_ms = Null THEN NaN
                                           ELSE raw.reminder_at_ms)] >>

\* tasksData.tasks.map(normalizeTask).filter(Boolean)
RECURSIVE NormalizeRows(_)
NormalizeRows(rows) ==
    IF rows = <<>> THEN <<>>
    ELSE normalizeBackendTask(Head(rows)) \o NormalizeRows(Tail(rows))

\* state.settings of the module, before anything is loaded
BackendDefaults ==
    [timezone |-> "Europe/Moscow", notifyBeforeMinutes |-> 0,
     chatNotificationsEnabled |-> TRUE]

\* the body of PUT /api/settings, and the settings /api/settings returns
SettingsBody(st) ==
    [timezone |-> st.timezone, notify_before_minutes |-> st.notifyBeforeMinutes,
     chat_notifications_enabled |-> st.chatNotificationsEnabled]

normalizeSettings(raw) ==
    [timezone |-> IF timezoneMapHas(raw.timezone) THEN raw.timezone ELSE "Europe/Moscow",
     notifyBeforeMinutes |->
         clampInt(Num(raw.notify_before_minutes), LeadMin, LeadMax, LeadFallback),
     chatNotificationsEnabled |-> raw.chat_notifications_enabled]

\* what a response that has not arrived yet has delivered
NoRows == [taken |-> FALSE, rows |-> <<>>]
NoSettings == [taken |-> FALSE, settings |-> SettingsBody(BackendDefaults)]

\* a handler that has been called and has not returned: n numbers the calls, pc is
\* the await it stands at ("request": its own apiRequest, "load": the Promise.all of
\* loadBackendData), served tells whether the backend has handled the request
Call(n, kind, id, text, is_done, st) ==
    [n |-> n, kind |-> kind, id |-> id, text |-> text, is_done |-> is_done,
     settings |-> SettingsBody(st), pc |-> "request", served |-> FALSE,
     tasksData |-> NoRows, settingsData |-> NoSettings]

TaskKinds == {"addTask", "toggleTask", "deleteTask", "editTask"}
SettingsKinds == {"timezone", "notifyBefore"}

\* init() awaiting its loadBackendData()
InitCall == [Call(0, "init", 0, <<>>, FALSE, BackendDefaults) EXCEPT !.pc = "load"]

\* the backend handling a request: POST adds a row, PATCH and DELETE act on the row
\* with the id and leave the others, PUT stores the settings
Handled(server, call) ==
    LET at(id) == {i \in DOMAIN server.tasks : server.tasks[i].id = id}
        keep(row) == row.id # call.id
    IN  CASE call.kind = "addTask" ->
                 [server EXCEPT !.tasks = @ \o <<Row(server.nextId, call.text, FALSE)>>,
                                !.nextId = @ + 1]
          [] call.kind = "toggleTask" ->
                 [server EXCEPT !.tasks = [i \in DOMAIN @ |->
                                              IF i \in at(call.id)
                                              THEN [@[i] EXCEPT !.is_done = call.is_done]
                                              ELSE @[i]]]
          [] call.kind = "editTask" ->
                 [server EXCEPT !.tasks = [i \in DOMAIN @ |->
                                              IF i \in at(call.id)
                                              THEN [@[i] EXCEPT !.text = call.text]
                                              ELSE @[i]]]
          [] call.kind = "deleteTask" ->
                 [server EXCEPT !.tasks = SelectSeq(@, keep)]
          [] OTHER -> [server EXCEPT !.settings = call.settings]

\* the handler returns
Returns(c, call) ==
    [c EXCEPT !.calls = @ \ {call}, !.bound = @ \/ call.kind = "init"]

\* a variant of the handlers' catch that empties the two inputs as well
requestFailed_ClearsInputs(c, call) ==
    [Returns(c, call) EXCEPT !.toast = "error", !.failed = TRUE, !.taskInput = <<>>]

\* the handler's own request is rejected: the catch shows error.message, and
\* nothing after the await in the try block runs
requestFailed(c, call) ==
    [Returns(c, call) EXCEPT !.toast = "error", !.failed = TRUE]

\* the statements of a handler after `await loadBackendData()`: addTask empties
\* the two inputs
afterLoad(c, call) ==
    Returns([c EXCEPT !.taskInput = IF call.kind = "addTask" THEN <<>> ELSE @], call)

\* loadBackendData once its three responses are there, and the rest of the handler
loadBackendData(c, call) ==
    afterLoad([c EXCEPT !.settings = normalizeSettings(call.settingsData.settings),
                        !.tasks = NormalizeRows(call.tasksData.rows)], call)

\* loadBackendData with a rejected request: its own catch shows the error, and the
\* handler goes on as after a load
loadFailed(c, call) ==
    afterLoad([c EXCEPT !.toast = "sync error", !.failed = TRUE], call)

PageOnly ==
    UNCHANGED <<tasks, settings, storedTasks, storedSettings, nextId, firedSince,
                reopened, rescheduled, hourCycle, conv, run>>

\* a handler can be called: bindEvents() has run, and the bounds leave room
CanCall == net.bound /\ Cardinality(net.calls) < MaxCalls /\ net.started < MaxStarted

Calling(call) ==
    [net EXCEPT !.calls = @ \cup {call}, !.started = @ + 1]

\* addTask with a text typed and no reminder, up to its `await apiRequest(...)`
AddTaskCall(text) ==
    /\ CanCall
    /\ net.server.nextId <= MaxRows
    /\ Cardinality({c \in net.calls : c.kind = "addTask" /\ ~c.served})
           + net.server.nextId <= MaxRows
    /\ net' = [Calling(Call(net.started + 1, "addTask", 0,
                            Slice(Trim(text), MAX_TEXT_LENGTH), FALSE, net.settings))
                  EXCEPT !.taskInput = text]
    /\ PageOnly

\* toggleTask(taskId, done), called from the checkbox of a rendered task
ToggleTaskCall(i) ==
    /\ CanCall
    /\ net' = Calling(Call(net.started + 1, "toggleTask", net.tasks[i].id, <<>>,
                           ~net.tasks[i].done, net.settings))
    /\ PageOnly

DeleteTaskCall(i) ==
    /\ CanCall
    /\ net' = Calling(Call(net.started + 1, "deleteTask", net.tasks[i].id, <<>>, FALSE,
                           net.settings))
    /\ PageOnly

\* editTask with both prompts answered: a text, and an empty reminder
EditTaskCall(i, text) ==
    /\ CanCall
    /\ net' = Calling(Call(net.started + 1, "editTask", net.tasks[i].id,
                           Slice(Trim(text), MAX_TEXT_LENGTH), FALSE, net.settings))
    /\ PageOnly

\* the timezone select's change handler: it assigns state.settings.timezone and
\* sends the settings as they then are
TimezoneCall(value) ==
    /\ CanCall
    /\ timezoneMapHas(value)
    /\ LET st == [net.settings EXCEPT !.timezone = value]
       IN  net' = [Calling(Call(net.started + 1, "timezone", 0, <<>>, FALSE, st))
                      EXCEPT !.settings = st, !.chosen = st]
    /\ PageOnly

\* the lead-time field's change handler
NotifyBeforeCall(value) ==
    /\ CanCall
    /\ LET st == [net.settings EXCEPT !.notifyBeforeMinutes =
                                          clampInt(value, LeadMin, LeadMax, LeadFallback)]
       IN  net' = [Calling(Call(net.started + 1, "notifyBefore", 0, <<>>, FALSE, st))
                      EXCEPT !.settings = st, !.chosen = st]
    /\ PageOnly

Becomes(call, next) == [net EXCEPT !.calls = (@ \ {call}) \cup {next}]

\* the backend handles the request of a handler
Serve(call) ==
    /\ call.pc = "request" /\ ~call.served
    /\ net' = [Becomes(call, [call EXCEPT !.served = TRUE])
                  EXCEPT !.server = Handled(net.server, call)]
    /\ PageOnly

\* the response arrives: a task handler calls loadBackendData(), which sends its
\* three requests; a settings handler sets the sync status and returns
Respond(call) ==
    /\ call.pc = "request" /\ call.served
    /\ net' = IF call.kind \in SettingsKinds THEN Returns(net, call)
              ELSE Becomes(call, [call EXCEPT !.pc = "load"])
    /\ PageOnly

\* the request is rejected: no connection, or a status that apiRequest throws for
RequestFails(call) ==
    /\ call.pc = "request"
    /\ net' = requestFailed(net, call)
    /\ PageOnly

\* the backend handles GET /api/tasks of a load
ServeTasks(call) ==
    /\ call.pc = "load" /\ ~call.tasksData.taken
    /\ net' = Becomes(call, [call EXCEPT !.tasksData =
                                             [taken |-> TRUE, rows |-> net.server.tasks]])
    /\ PageOnly

\* the backend handles GET /api/settings of a load
ServeSettings(call) ==
    /\ call.pc = "load" /\ ~call.settingsData.taken
    /\ net' = Becomes(call, [call EXCEPT !.settingsData =
                                 [taken |-> TRUE, settings |-> net.server.settings]])
    /\ PageOnly

\* the last of the three responses arrives
LoadCompletes(call) ==
    /\ call.pc = "load" /\ call.tasksData.taken /\ call.settingsData.taken
    /\ net' = loadBackendData(net, call)
    /\ PageOnly

\* one of the three requests is rejected
LoadFails(call) ==
    /\ call.pc = "load"
    /\ net' = loadFailed(net, call)
    /\ PageOnly

\* setInterval(updateClock, 1000), set up by init() after its load
BackendTick ==
    /\ net.bound
    /\ UNCHANGED vars

\* the texts typed into the task field and the edit prompt
BackendTexts == {<<"a">>, <<"b">>}

\* the page has been evaluated in backend mode and init() awaits its first load;
\* the backend holds no task or one, and the settings of a new user
BackendInit ==
    /\ Started
    /\ hourCycle = "h23"
    /\ conv = Idle
    /\ run = Quiet
    /\ \E rows \in {<<>>, <<Row(1, <<"a">>, FALSE)>>} :
           net = [mode |-> "backend", tasks |-> <<>>, settings |-> BackendDefaults,
                  chosen |-> BackendDefaults, taskInput |-> <<>>, toast |-> "hidden",
                  bound |-> FALSE, failed |-> FALSE, started |-> 0, calls |-> {InitCall},
                  server |-> [tasks |-> rows, nextId |-> Len(rows) + 1,
                              settings |-> SettingsBody(BackendDefaults)]]

BackendNext ==
    \/ \E text \in BackendTexts : AddTaskCall(text)
    \/ \E i \in DOMAIN net.tasks : ToggleTaskCall(i)
    \/ \E i \in DOMAIN net.tasks : DeleteTaskCall(i)
    \/ \E i \in DOMAIN net.tasks, text \in BackendTexts : EditTaskCall(i, text)
    \/ \E value \in {"Europe/Moscow", "Europe/Samara"} : TimezoneCall(value)
    \/ \E value \in {Num(10), NaN} : NotifyBeforeCall(value)
    \/ \E call \in net.calls : Serve(call)
    \/ \E call \in net.calls : Respond(call)
    \/ \E call \in net.calls : RequestFails(call)
    \/ \E call \in net.calls : ServeTasks(call)
    \/ \E call \in net.calls : ServeSettings(call)
    \/ \E call \in net.calls : LoadCompletes(call)
    \/ \E call \in net.calls : LoadFails(call)
    \/ BackendTick

BackendSpec == BackendInit /\ [][BackendNext]_vars

-----------------------------------------------------------------------------
(* C34: task handlers in flight at once *)

\* every handler has returned, and no request was rejected
AllCompleted == net.calls = {} /\ ~net.failed

\* C34, as claimed: once every request of every handler has completed, state.tasks
\* is the backend's task list, however many task handlers were in flight at once.
C34_TasksEqualBackend ==
    AllCompleted => net.tasks = NormalizeRows(net.server.tasks)

\* what does hold: it is so while no more than one handler has been called
C34_EqualAfterOneHandler ==
    (AllCompleted /\ net.started <= 1) => net.tasks = NormalizeRows(net.server.tasks)

\* and a load that completes leaves in state.tasks the rows of its own response,
\* whatever state.tasks held and whatever the backend holds by then
C34_LastResponseWins ==
    \A call \in net.calls :
        (call.pc = "load" /\ call.tasksData.taken /\ call.settingsData.taken) =>
            loadBackendData(net, call).tasks = NormalizeRows(call.tasksData.rows)

-----------------------------------------------------------------------------
(* C35: a settings change during a load *)

\* C35, as claimed, where the backend has stored the user's latest choice: once
\* every request has completed, state.settings is that choice, whatever
\* loadBackendData was in flight when it was made.
C35_ChoiceSurvivesLoad ==
    (AllCompleted /\ net.server.settings = SettingsBody(net.chosen)) =>
        net.settings = net.chosen

\* the same with the backend's settings compared as well: two settings requests that
\* the backend handles in the other order leave it with the earlier choice
C35_SettingsKept ==
    AllCompleted =>
        /\ net.settings = net.chosen
        /\ SettingsBody(net.settings) = net.server.settings

\* what does hold: it is so while no more than one handler has been called
C35_KeptAfterOneHandler ==
    (AllCompleted /\ net.started <= 1) =>
        /\ net.settings = net.chosen
        /\ SettingsBody(net.settings) = net.server.settings

-----------------------------------------------------------------------------
(* C36: a rejected request *)

\* C36: when the request of addTask, toggleTask, deleteTask or editTask is rejected,
\* the handler shows the error and returns: state.tasks, state.settings and the two
\* inputs are as they were, no loadBackendData is started, the other handlers in
\* flight are untouched, and the event handlers and the clock timer stay in place.
C36_RejectedRequestChangesNothing ==
    /\ \A call \in net.calls :
           (call.pc = "request" /\ call.kind \in TaskKinds) =>
               LET after == requestFailed(net, call)
               IN  /\ after.toast = "error"
                   /\ after.tasks = net.tasks
                   /\ after.settings = net.settings
                   /\ after.taskInput = net.taskInput
                   /\ after.calls = net.calls \ {call}
                   /\ after.started = net.started
                   /\ after.bound
    /\ net.failed => net.bound /\ ENABLED BackendTick

\* the request of an addTask was rejected: the error is shown and the text is still
\* in the input, and a handler called after it is loading
C36_Witness ==
    /\ net.failed
    /\ net.toast = "error"
    /\ net.taskInput # <<>>
    /\ ~\E call \in net.calls : call.kind = "addTask"
    /\ \E call \in net.calls : call.pc = "load" /\ call.n = net.started
====
